---- MODULE Spec2Model ----
(***************************************************************************)
(* Forensic analysis pipeline of realpls (src/lib/forensics): loadImage,   *)
(* runForensicPipeline with its six stages, runDeepCloneScan and           *)
(* exportReportJSON, as a state machine.                                   *)
(*                                                                         *)
(* Numbers that the code keeps as fractions are kept here as integers:     *)
(* confidences in hundredths (0.8 is 80), measured ratios as a numerator   *)
(* and a denominator, measured magnitudes in hundredths.                   *)
(***************************************************************************)
EXTENDS Integers, Sequences, FiniteSets, TLC

(***************************************************************************)
(* JavaScript values.                                                      *)
(***************************************************************************)
\* the value of a typed-array read past the end (undefined): no byte equals it
Undefined == -1
\* JavaScript null or undefined in a place that holds a text
Null == "null"
\* JavaScript null or undefined in a place that holds an object
NullObject == [null |-> TRUE]
\* a place that holds number | null: a number, null, or the number NaN
Num(n) == [kind |-> "number", value |-> n]
NullNumber == [kind |-> "null"]
NaN == [kind |-> "NaN"]

Range(s) == {s[i] : i \in DOMAIN s}

Zeros(n) == [i \in 1..n |-> 0]

\* bytes[i] of a Uint8Array over the buffer, i counted from 0
ByteAt(bytes, i) == IF i >= 0 /\ i < Len(bytes) THEN bytes[i + 1] ELSE Undefined

(***************************************************************************)
(* utils: magic bytes and container-level animation.                       *)
(***************************************************************************)
\* the signature table of types.ts, which detectFileType imports
FILE_SIGNATURES ==
  [mime \in {"image/jpeg", "image/png", "image/gif", "image/webp"} |->
     CASE mime = "image/jpeg" -> <<255, 216, 255>>
       [] mime = "image/png"  -> <<137, 80, 78, 71, 13, 10, 26, 10>>
       [] mime = "image/gif"  -> <<71, 73, 70, 56>>
       [] mime = "image/webp" -> <<82, 73, 70, 70>>]

detectFileType(bytes) ==
  IF ByteAt(bytes, 0) = 255 /\ ByteAt(bytes, 1) = 216 /\ ByteAt(bytes, 2) = 255
    THEN "image/jpeg"
  ELSE IF ByteAt(bytes, 0) = 137 /\ ByteAt(bytes, 1) = 80
          /\ ByteAt(bytes, 2) = 78 /\ ByteAt(bytes, 3) = 71
    THEN "image/png"
  ELSE IF ByteAt(bytes, 0) = 71 /\ ByteAt(bytes, 1) = 73
          /\ ByteAt(bytes, 2) = 70 /\ ByteAt(bytes, 3) = 56
    THEN "image/gif"
  ELSE IF ByteAt(bytes, 0) = 82 /\ ByteAt(bytes, 1) = 73
          /\ ByteAt(bytes, 2) = 70 /\ ByteAt(bytes, 3) = 70
          /\ ByteAt(bytes, 8) = 87 /\ ByteAt(bytes, 9) = 69
          /\ ByteAt(bytes, 10) = 66 /\ ByteAt(bytes, 11) = 80
    THEN "image/webp"
  ELSE Null

\* the number of Graphic Control Extension markers 21 F9 at the offsets the
\* loop visits (i < length - 3)
GceCount(bytes) ==
  Cardinality({i \in 0..(Len(bytes) - 4) :
                  ByteAt(bytes, i) = 33 /\ ByteAt(bytes, i + 1) = 249})

isAnimatedGif(bytes) == GceCount(bytes) > 1

isAnimatedWebP(bytes) ==
  \E i \in 0..(Len(bytes) - 5) :
     /\ ByteAt(bytes, i) = 65     /\ ByteAt(bytes, i + 1) = 78
     /\ ByteAt(bytes, i + 2) = 73 /\ ByteAt(bytes, i + 3) = 77

(***************************************************************************)
(* The files a caller submits: declared mime, name (its dot-separated      *)
(* segments), raw bytes.                                                   *)
(***************************************************************************)
JpegBytes(q0) == <<255, 216, 255, 224, 255, 219, 0, 67, 0, q0>> \o Zeros(70)
JpegNoDqt     == <<255, 216, 255, 224>> \o Zeros(8)
PngBytes      == <<137, 80, 78, 71, 13, 10, 26, 10>> \o Zeros(4)
GifStatic     == <<71, 73, 70, 56, 57, 97, 33, 249, 4, 0, 0, 0>>
GifAnimated   == <<71, 73, 70, 56, 57, 97, 33, 249, 4, 0, 33, 249, 4, 0, 0, 0>>
WebpStatic    == <<82, 73, 70, 70, 0, 0, 0, 0, 87, 69, 66, 80, 86, 80, 56, 32>>
WebpAnimated  == <<82, 73, 70, 70, 0, 0, 0, 0, 87, 69, 66, 80, 65, 78, 73, 77, 0>>
RiffWave      == <<82, 73, 70, 70, 0, 0, 0, 0, 87, 65, 86, 69>>
Truncated     == <<255, 216>>

SampleBuffers ==
  { JpegBytes(3), JpegBytes(60), JpegBytes(80), JpegNoDqt, PngBytes, GifStatic,
    GifAnimated, WebpStatic, WebpAnimated, RiffWave, Truncated }

\* declared mime and name of the sample files
SampleDescriptors ==
  { <<"image/jpeg", <<"photo", "jpg">> >>, <<"image/png", <<"photo", "jpg">> >>,
    <<"", <<"scan", "PNG">> >>, <<"text/plain", <<"notes", "txt">> >> }

\* String.prototype.toLowerCase on the sample name segments
toLowerCase(s) == IF s = "PNG" THEN "png" ELSE s

\* every sample buffer under the first descriptor, and every descriptor over
\* a JPEG, a PNG and an unrecognised buffer
SampleContainers ==
  { <<d, b>> \in SampleDescriptors \X SampleBuffers :
      \/ d[1] = "image/jpeg"
      \/ b \in {JpegBytes(3), PngBytes, RiffWave} }

(***************************************************************************)
(* Decoded images.  The pixel loops of the checks are represented by what  *)
(* they measure on the decoded buffer; a sample of pixel contents is the   *)
(* record of those measurements.                                           *)
(*   hasAlpha      some alpha byte is below 255                            *)
(*   boundary      block-boundary strength, in thousandths                 *)
(*   uniformPct    16x16 blocks with luminance stddev < 3, per hundred     *)
(*   spikes        32x32 blocks whose Laplacian energy lies at 0 and as    *)
(*                 many at 2, the others lying at 1                        *)
(*   meanEdge      mean Sobel magnitude, in hundredths                     *)
(*   strongEdges   pixels above mean + 3 stddev, per thousand              *)
(*   buckets       the sample positions that share a block hash, in scan   *)
(*                 order, one sequence per hash shared by two or more      *)
(*   ela           mean, maximum and deviation of the re-encode            *)
(*                 difference, in hundredths                               *)
(***************************************************************************)
Pos(x, y) == [x |-> x, y |-> y]

\* the blocks one hash bucket holds when the blocks at (x1, y) and (x2, y)
\* have the same content
Twins(x1, x2, y) == <<Pos(x1, y), Pos(x2, y)>>

QuietPixels ==
  [hasAlpha |-> FALSE, boundary |-> 100, uniformPct |-> 5, spikes |-> 0,
   meanEdge |-> 1250, strongEdges |-> 5, buckets |-> <<>>,
   ela |-> [avg |-> 120, max |-> 900, variance |-> 150]]

MixedPixels ==
  [hasAlpha |-> TRUE, boundary |-> 500, uniformPct |-> 20, spikes |-> 1,
   meanEdge |-> 2300, strongEdges |-> 30,
   buckets |-> << <<Pos(0, 0), Pos(80, 0), Pos(64, 0)>> >>,
   ela |-> [avg |-> 300, max |-> 4000, variance |-> 1900]]

LoudPixels ==
  [hasAlpha |-> FALSE, boundary |-> 800, uniformPct |-> 50, spikes |-> 5,
   meanEdge |-> 4100, strongEdges |-> 40,
   buckets |-> <<Twins(0, 128, 0), Twins(64, 192, 0), Twins(0, 128, 96),
                Twins(64, 192, 96), Twins(0, 128, 192), Twins(64, 192, 192)>>,
   ela |-> [avg |-> 800, max |-> 9000, variance |-> 2500]]

\* what the image loader decodes the sample files to: width, height, pixels
SampleDecodings ==
  { <<64, 48, QuietPixels>>, <<128, 128, QuietPixels>>,
    <<128, 128, MixedPixels>>, <<256, 256, LoudPixels>> }

\* new ImageData(width, height): a raster of the size of the source
ImageData(w, h) == [width |-> w, height |-> h]

(***************************************************************************)
(* Text.  A template literal is the sequence of its parts; a number        *)
(* printed by toFixed is the number scaled by 10^digits, rounded.          *)
(***************************************************************************)
Pow10(k) == IF k = 0 THEN 1 ELSE IF k = 1 THEN 10 ELSE 100

\* (num / den).toFixed(k), for num >= 0 and den > 0
toFixed(num, den, k) ==
  [scaled |-> (2 * num * Pow10(k) + den) \div (2 * den), digits |-> k]

\* formatFileSize
formatFileSize(bytes) ==
  IF bytes < 1024 THEN <<bytes, " B">>
  ELSE IF bytes < 1024 * 1024 THEN <<toFixed(bytes, 1024, 1), " KB">>
  ELSE <<toFixed(bytes, 1024 * 1024, 2), " MB">>

\* a || b on texts: the empty text and null are falsy
OrElse(a, b) == IF a = "" \/ a = Null THEN b ELSE a

(***************************************************************************)
(* fileChecks.  A CheckResult is the record of its properties; the         *)
(* free-form notes text, which no operation reads, is left out.            *)
(***************************************************************************)
\* what a lookup in an object literal finds for a key the literal does not
\* hold but Object.prototype does: a function or an object, never a mime
InheritedMember == "[Object.prototype member]"

\* extensionToMime[ext]; "constructor" and "__proto__" are the keys of
\* Object.prototype that toLowerCase leaves as they are
extensionToMime(ext) ==
  CASE ext = "jpg"  -> "image/jpeg"
    [] ext = "jpeg" -> "image/jpeg"
    [] ext = "png"  -> "image/png"
    [] ext = "gif"  -> "image/gif"
    [] ext = "webp" -> "image/webp"
    [] ext \in {"constructor", "__proto__"} -> InheritedMember
    [] OTHER        -> Null

\* file.file.name.split('.').pop()?.toLowerCase()
extensionOf(name) == toLowerCase(name[Len(name)])

checkFileTypeStatus(detectedType, declaredType, extension) ==
  LET expectedFromExt == IF extension # "" THEN extensionToMime(extension) ELSE Null
  IN  IF detectedType = Null THEN "unverified"
      ELSE IF detectedType # declaredType /\ declaredType # "" THEN "mismatch"
      ELSE IF expectedFromExt # Null /\ detectedType # expectedFromExt
        THEN "extension"
      ELSE "verified"

checkFileType(img) ==
  LET detectedType == detectFileType(img.arrayBuffer)
      declaredType == img.file.type
      extension    == extensionOf(img.file.name)
      outcome      == checkFileTypeStatus(detectedType, declaredType, extension)
  IN  [id |-> "file-type",
       name |-> "File Type Detection",
       status |-> IF outcome = "verified" THEN "ok" ELSE "warn",
       summary |->
         CASE outcome = "unverified" ->
                <<"Could not verify file type from magic bytes">>
           [] outcome = "mismatch" ->
                <<"File signature (", detectedType,
                  ") differs from declared type (", declaredType, ")">>
           [] outcome = "extension" ->
                <<"File extension (.", extension,
                  ") doesn't match actual type (", detectedType, ")">>
           [] OTHER ->
                <<"File type verified: ", OrElse(detectedType, declaredType)>>,
       details |->
         ("Detected Type" :> OrElse(detectedType, "Unknown"))
         @@ ("Declared Type" :> OrElse(declaredType, "None"))
         @@ ("Extension" :> OrElse(extension, "None"))
         @@ ("Match" :> IF detectedType = declaredType THEN "Yes" ELSE "No"),
       confidence |-> IF detectedType # Null THEN 95 ELSE 50]

checkFileProperties(img) ==
  [id |-> "file-properties",
   name |-> "File Properties",
   status |-> "info",
   summary |-> <<img.width, "x", img.height, " px, ",
                 formatFileSize(Len(img.arrayBuffer))>>,
   details |->
     ("Width" :> <<img.width, " px">>)
     @@ ("Height" :> <<img.height, " px">>)
     @@ ("File Size" :> formatFileSize(Len(img.arrayBuffer)))
     @@ ("Aspect Ratio" :> toFixed(img.width, img.height, 2))
     @@ ("Has Alpha" :> IF img.pixels.hasAlpha THEN "Yes" ELSE "No")
     @@ ("Megapixels" :> <<toFixed(img.width * img.height, 1000000, 2), " MP">>),
   confidence |-> 100]

\* the result of checkAnimation, or NullObject when the check does not apply
checkAnimation(img) ==
  LET detectedType == detectFileType(img.arrayBuffer)
      isAnimated ==
        IF detectedType = "image/gif" THEN isAnimatedGif(img.arrayBuffer)
        ELSE isAnimatedWebP(img.arrayBuffer)
      format == IF detectedType = "image/gif" THEN "GIF" ELSE "WebP"
  IN  IF detectedType \notin {"image/gif", "image/webp"} THEN NullObject
      ELSE [id |-> "animation",
            name |-> "Animation Detection",
            status |-> IF isAnimated THEN "warn" ELSE "ok",
            summary |-> IF isAnimated THEN <<"Animated ", format, " detected">>
                        ELSE <<"Static ", format, " image (not animated)">>,
            details |-> ("Format" :> format)
                        @@ ("Animated" :> IF isAnimated THEN "Yes" ELSE "No"),
            confidence |-> 90]

\* the results that are present, in order
Present(results) == SelectSeq(results, LAMBDA r : r # NullObject)

runFileChecks(img) ==
  <<checkFileType(img), checkFileProperties(img)>>
  \o Present(<<checkAnimation(img)>>)

(***************************************************************************)
(* metadataChecks.  An ExifData record holds the tags that are present.    *)
(* A tag text is kept as the sequence of its words, and includes() is      *)
(* containment of a word sequence; no sample has a keyword inside a        *)
(* longer word.  An EXIF date is <<year, month, day, time>>.  The Software *)
(* tag is declared a string but holds what the file encodes: a text or,    *)
(* when the tag is stored with a numeric type, a number.                   *)
(***************************************************************************)
Text(words) == [kind |-> "string", words |-> words]

CameraExif ==
  [Make |-> "Canon", Model |-> "EOS 80D",
   Software |-> Text(<<"Canon", " ", "Camera", " ", "Firmware">>),
   DateTimeOriginal |-> <<"2023", "01", "15", "14:30:00">>,
   ExposureTime |-> [num |-> 1, den |-> 250], FNumber |-> 4, ISO |-> 200,
   GPSLatitude |-> 52, GPSLongitude |-> 13]

EditedExif ==
  [Make |-> "Canon",
   Software |-> Text(<<"Adobe", " ", "Photoshop", " ", "24.0">>),
   DateTime |-> <<"2023", "02", "01", "09:00:00">>]

\* a Software tag stored as a SHORT
NumericTagExif == [Make |-> "Canon", Software |-> Num(7)]

\* what the metadata extractor finds in the sample files, NullObject when it
\* finds no record
SampleExif == {NullObject, CameraExif, EditedExif, NumericTagExif}

\* the values that are not falsy
Truthy(v) == v \notin {Text(<<>>), Num(0), NaN, NullNumber}

\* what a check that threw leaves in the place of its result
Thrown(error) == [thrown |-> error]

IsThrown(result) == "thrown" \in DOMAIN result

Has(obj, key) == key \in DOMAIN obj

lowerWord(w) ==
  CASE w = "Canon"     -> "canon"
    [] w = "Camera"    -> "camera"
    [] w = "Firmware"  -> "firmware"
    [] w = "Adobe"     -> "adobe"
    [] w = "Photoshop" -> "photoshop"
    [] OTHER           -> w

lowerText(t) == [i \in DOMAIN t |-> lowerWord(t[i])]

\* text.includes(part)
includes(text, part) ==
  \E k \in 0..(Len(text) - Len(part)) :
     \A i \in 1..Len(part) : text[k + i] = part[i]

EDITING_SOFTWARE ==
  << <<"photoshop">>, <<"adobe">>, <<"gimp">>, <<"snapseed">>, <<"lightroom">>,
     <<"capture", " ", "one">>, <<"affinity">>, <<"pixelmator">>,
     <<"paint.net">>, <<"corel">>, <<"photoscape">>, <<"fotor">>, <<"picasa">>,
     <<"instagram">>, <<"vsco">>, <<"facetune">>, <<"meitu">>, <<"beautycam">>,
     <<"snow">>, <<"b612">>, <<"remini">>, <<"faceapp">>, <<"airbrush">> >>

cameraKeywords == << <<"camera">>, <<"dcim">>, <<"photo">>, <<"imaging">> >>

\* what one invocation of the extractor ends with
ExtractorOutcomes == {"parsed", "import-failed", "parse-failed"}

\* an extractExif that hands out what the file holds whatever the extractor did
extractExifUnguarded(found, outcome) == found

\* extractExif: the record the extractor parsed, or null when it found none or
\* when loading or running it failed
extractExif(found, outcome) == IF outcome = "parsed" THEN found ELSE NullObject

formatExifDate(date) ==
  <<date[1], "-", date[2], "-", date[3], " ", date[4]>>

formatExposure(time) ==
  IF time.num >= time.den THEN <<time, "s">>
  ELSE <<"1/", (2 * time.den + time.num) \div (2 * time.num), "s">>

buildExifSummary(exif) ==
  LET camera ==
        IF Has(exif, "Make") /\ Has(exif, "Model")
          THEN << <<exif.Make, " ", exif.Model>> >>
        ELSE IF Has(exif, "Make") THEN << <<exif.Make>> >>
        ELSE IF Has(exif, "Model") THEN << <<exif.Model>> >>
        ELSE <<>>
      date ==
        IF Has(exif, "DateTimeOriginal") THEN exif.DateTimeOriginal
        ELSE IF Has(exif, "DateTime") THEN exif.DateTime
        ELSE <<>>
      parts ==
        camera \o (IF date = <<>> THEN <<>>
                   ELSE << <<date[1], "-", date[2], "-", date[3]>> >>)
  IN  IF parts = <<>> THEN <<"EXIF data present">> ELSE parts

\* the detail entry for a tag that is present, none otherwise
Entry(exif, tag, key, value) ==
  IF Has(exif, tag) THEN (key :> value) ELSE <<>>

checkExifPresence(exif) ==
  IF exif = NullObject \/ DOMAIN exif = {}
    THEN [id |-> "exif-presence",
          name |-> "EXIF Metadata",
          status |-> "info",
          summary |-> <<"No EXIF metadata found">>,
          details |-> ("EXIF Present" :> "No"),
          confidence |-> 80]
    ELSE [id |-> "exif-presence",
          name |-> "EXIF Metadata",
          status |-> "ok",
          summary |-> buildExifSummary(exif),
          details |->
            ("EXIF Present" :> "Yes")
            @@ Entry(exif, "Make", "Camera Make", exif.Make)
            @@ Entry(exif, "Model", "Camera Model", exif.Model)
            @@ Entry(exif, "Software", "Software", exif.Software)
            @@ Entry(exif, "DateTime", "Date/Time", formatExifDate(exif.DateTime))
            @@ Entry(exif, "DateTimeOriginal", "Original Date",
                     formatExifDate(exif.DateTimeOriginal))
            @@ Entry(exif, "ExposureTime", "Exposure",
                     formatExposure(exif.ExposureTime))
            @@ Entry(exif, "FNumber", "Aperture", <<"f/", exif.FNumber>>)
            @@ Entry(exif, "ISO", "ISO", exif.ISO)
            @@ ("GPS Data" :>
                  IF Has(exif, "GPSLatitude") /\ Has(exif, "GPSLongitude")
                    THEN "Present" ELSE "None"),
          confidence |-> 90]

\* the check after its extractExif has returned exif; toLowerCase is a method
\* of strings only
checkEditingSoftware(exif) ==
  IF ~Has(exif, "Software") \/ ~Truthy(exif.Software)
    THEN [id |-> "editing-software",
          name |-> "Editing Software Detection",
          status |-> "info",
          summary |-> <<"No software tag in metadata">>,
          details |-> ("Software Tag" :> "Not present"),
          confidence |-> 60]
  ELSE IF exif.Software.kind # "string"
    THEN Thrown("TypeError: exif.Software.toLowerCase is not a function")
    ELSE
      LET software == lowerText(exif.Software.words)
          matchedEditors ==
            SelectSeq(EDITING_SOFTWARE, LAMBDA editor : includes(software, editor))
          isLikelyCamera ==
            \E i \in DOMAIN cameraKeywords : includes(software, cameraKeywords[i])
      IN  IF matchedEditors # <<>>
            THEN [id |-> "editing-software",
                  name |-> "Editing Software Detection",
                  status |-> "warn",
                  summary |-> <<"Editing software detected: ", exif.Software>>,
                  details |-> ("Software Tag" :> exif.Software)
                              @@ ("Known Editors Found" :> matchedEditors),
                  confidence |-> 70]
            ELSE [id |-> "editing-software",
                  name |-> "Editing Software Detection",
                  status |-> "ok",
                  summary |-> <<"Software: ", exif.Software>>,
                  details |-> ("Software Tag" :> exif.Software)
                              @@ ("Type" :> IF isLikelyCamera
                                              THEN "Camera/Device Software"
                                              ELSE "Unknown Software"),
                  confidence |-> 70]

(***************************************************************************)
(* compressionChecks.                                                      *)
(***************************************************************************)
\* a number printed into a text, and a piece of text beside it
Digits(n) == [digits |-> n]
Str(t) == [chars |-> t]

\* a parseInt that reads a text without leading digits as 0
parseIntOrZero(text) ==
  IF text # <<>> /\ "digits" \in DOMAIN text[1] THEN Num(text[1].digits) ELSE Num(0)

\* parseInt(text): the number the text starts with, or NaN
parseInt(text) ==
  IF text # <<>> /\ "digits" \in DOMAIN text[1] THEN Num(text[1].digits) ELSE NaN

Max(a, b) == IF a >= b THEN a ELSE b
Min(a, b) == IF a <= b THEN a ELSE b
Abs(a) == IF a < 0 THEN 0 - a ELSE a

\* the quality for q0 without the final Math.max(1, Math.min(100, quality))
qualityUnclamped(q0) ==
  IF q0 < 2 THEN 98
  ELSE IF q0 < 10 THEN 100 - q0 * 2
  ELSE IF q0 < 50 THEN (2 * 5000 + q0) \div (2 * q0)
  ELSE 200 - q0 * 2

\* the quality for the DC quantization value q0 (q0 >= 1)
qualityOf(q0) ==
  LET quality ==
        IF q0 < 2 THEN 98
        ELSE IF q0 < 10 THEN 100 - q0 * 2
        ELSE IF q0 < 50 THEN (2 * 5000 + q0) \div (2 * q0)
        ELSE 200 - q0 * 2
  IN  Max(1, Min(100, quality))

\* the loop of estimateJpegQuality returns at the first offset i below
\* length - 70 that holds the marker FF DB, a length of 67 or more and, five
\* bytes on, a q0 that is neither 0 nor undefined
estimateJpegQuality(bytes) ==
  LET hits ==
        { i \in 0..(Len(bytes) - 71) :
            /\ ByteAt(bytes, i) = 255 /\ ByteAt(bytes, i + 1) = 219
            /\ ByteAt(bytes, i + 2) * 256 + ByteAt(bytes, i + 3) >= 67
            /\ ByteAt(bytes, i + 5) # 0 /\ ByteAt(bytes, i + 5) # Undefined }
      first == CHOOSE i \in hits : \A j \in hits : i <= j
  IN  IF hits = {} THEN NullNumber
      ELSE Num(qualityOf(ByteAt(bytes, first + 5)))

getQualityLevel(quality) ==
  IF quality >= 90 THEN "High"
  ELSE IF quality >= 75 THEN "Good"
  ELSE IF quality >= 50 THEN "Medium"
  ELSE "Low"

checkJpegQuality(img) ==
  LET qualityEstimate == estimateJpegQuality(img.arrayBuffer)
  IN  IF detectFileType(img.arrayBuffer) # "image/jpeg" THEN NullObject
      ELSE IF qualityEstimate = NullNumber
        THEN [id |-> "jpeg-quality",
              name |-> "JPEG Quality Analysis",
              status |-> "info",
              summary |-> <<"Could not determine JPEG quality">>,
              details |-> ("Format" :> "JPEG")
                          @@ ("Quality Estimate" :> <<Str("Unknown")>>),
              confidence |-> 30]
        ELSE [id |-> "jpeg-quality",
              name |-> "JPEG Quality Analysis",
              status |-> IF qualityEstimate.value < 50 THEN "warn" ELSE "info",
              summary |-> <<"Estimated quality: ", qualityEstimate.value, "%">>,
              details |->
                ("Format" :> "JPEG")
                @@ ("Quality Estimate" :> <<Digits(qualityEstimate.value), Str("%")>>)
                @@ ("Quality Level" :> getQualityLevel(qualityEstimate.value)),
              confidence |-> 60]

\* boundaryStrength of analyzeBlockBoundaries, in thousandths
analyzeBlockBoundaries(img) ==
  IF img.width < 16 \/ img.height < 16 THEN 0 ELSE img.pixels.boundary

checkDoubleCompression(img) ==
  LET boundaryStrength == analyzeBlockBoundaries(img)
  IN  IF detectFileType(img.arrayBuffer) # "image/jpeg" THEN NullObject
      ELSE [id |-> "double-compression",
            name |-> "Compression Artifacts (Experimental)",
            status |-> IF boundaryStrength > 700 THEN "warn" ELSE "info",
            summary |->
              IF boundaryStrength > 700
                THEN <<"Strong block boundary artifacts detected">>
              ELSE IF boundaryStrength > 400
                THEN <<"Moderate block boundaries present">>
              ELSE <<"Block boundaries within normal range">>,
            details |->
              ("Block Boundary Strength" :> <<toFixed(boundaryStrength, 10, 1), "%">>)
              @@ ("Analysis Type" :> "8x8 DCT Block Analysis"),
            confidence |-> 40]

\* uniformRatio of analyzeUniformity, as uniform blocks over all blocks
analyzeUniformity(img) ==
  LET blocksX == img.width \div 16
      blocksY == img.height \div 16
      totalBlocks == blocksX * blocksY
  IN  IF blocksX < 2 \/ blocksY < 2 THEN [num |-> 0, den |-> 1]
      ELSE [num |-> (totalBlocks * img.pixels.uniformPct) \div 100,
            den |-> totalBlocks]

checkUniformAreas(img) ==
  LET ratio == analyzeUniformity(img)
      percent == toFixed(ratio.num * 100, ratio.den, 0)
  IN  [id |-> "uniform-areas",
       name |-> "Uniform Area Analysis",
       status |-> IF 10 * ratio.num > 3 * ratio.den THEN "warn" ELSE "info",
       summary |->
         IF 10 * ratio.num > 3 * ratio.den
           THEN <<"Large uniform areas detected (", percent, "%)">>
         ELSE IF 10 * ratio.num > ratio.den
           THEN <<"Some uniform areas present (", percent, "%)">>
         ELSE <<"Natural texture variation throughout">>,
       details |->
         ("Uniform Ratio" :> <<toFixed(ratio.num * 100, ratio.den, 1), "%">>)
         @@ ("Analysis" :> "Texture variance per block"),
       confidence |-> 50,
       overlay |-> ImageData(img.width, img.height)]

\* a runCompressionChecks that leaves out the double-compression check
runCompressionChecksOfQuality(img) ==
  Present(<<checkJpegQuality(img)>>) \o <<checkUniformAreas(img)>>

runCompressionChecks(img) ==
  Present(<<checkJpegQuality(img)>>) \o Present(<<checkDoubleCompression(img)>>)
  \o <<checkUniformAreas(img)>>

(***************************************************************************)
(* pixelChecks.                                                            *)
(***************************************************************************)
RECURSIVE SumTo(_, _)
\* q[1] + ... + q[k]
SumTo(q, k) == IF k = 0 THEN 0 ELSE q[k] + SumTo(q, k - 1)

SumSeq(q) == SumTo(q, Len(q))

RECURSIVE sqrtBetween(_, _, _)
\* the largest r in lo..hi with r * r <= v
sqrtBetween(lo, hi, v) ==
  IF lo >= hi THEN lo
  ELSE LET mid == (lo + hi + 1) \div 2
       IN  IF mid * mid <= v THEN sqrtBetween(mid, hi, v)
           ELSE sqrtBetween(lo, mid - 1, v)

\* Math.floor(Math.sqrt(v))
floorSqrt(v) == sqrtBetween(0, 46340, v)

\* the mean Laplacian energy of the 32x32 blocks, in scan order
blockEnergies(img, n) ==
  [i \in 1..n |-> IF i <= img.pixels.spikes THEN 0
                  ELSE IF i <= 2 * img.pixels.spikes THEN 2
                  ELSE 1]

\* a threshold of 2 standard deviations in the place of 2.5
aboveTwoDeviations(n, sum, spread, energy) ==
  /\ spread > 0
  /\ (n * energy - sum) * (n * energy - sum) > 4 * spread

\* zScore > outlierThreshold for a block of the given energy among n blocks
\* whose energies add up to sum, spread being n * n times their variance; the
\* zScore is 0 when the deviation is 0, and the threshold is 2.5
aboveOutlierThreshold(n, sum, spread, energy) ==
  /\ spread > 0
  /\ 4 * (n * energy - sum) * (n * energy - sum) > 25 * spread

checkNoiseConsistency(img) ==
  LET blockSize == 32
      blocksX == img.width \div blockSize
      blocksY == img.height \div blockSize
      n == blocksX * blocksY
      energies == blockEnergies(img, n)
      sum == SumSeq(energies)
      squares == SumSeq([i \in 1..n |-> energies[i] * energies[i]])
      \* n * n times the variance of the block energies
      spread == n * squares - sum * sum
      isOutlier(i) == aboveOutlierThreshold(n, sum, spread, energies[i])
      zScore(i) ==
        [scaled |->
           (floorSqrt((400 * (n * energies[i] - sum) * (n * energies[i] - sum))
                        \div spread) + 1) \div 2,
         digits |-> 1]
      outliers == SelectSeq([i \in 1..n |-> i], isOutlier)
      outlierBlocks ==
        [k \in 1..Len(outliers) |->
           [x |-> ((outliers[k] - 1) % blocksX) * blockSize,
            y |-> ((outliers[k] - 1) \div blocksX) * blockSize,
            width |-> blockSize, height |-> blockSize,
            label |-> <<"Z-score: ", zScore(outliers[k])>>]]
      count == Len(outlierBlocks)
  IN  IF blocksX < 3 \/ blocksY < 3
        THEN [id |-> "noise-consistency",
              name |-> "Noise Consistency Analysis",
              status |-> "info",
              summary |-> <<"Image too small for reliable noise analysis">>,
              details |-> ("Analysis" :> "Skipped - insufficient resolution"),
              confidence |-> 20]
        ELSE [id |-> "noise-consistency",
              name |-> "Noise Consistency Analysis",
              status |-> IF 100 * count > 15 * n THEN "warn"
                         ELSE IF 100 * count > 5 * n THEN "info"
                         ELSE "ok",
              summary |->
                IF 100 * count > 15 * n
                  THEN <<"Significant noise inconsistencies detected (", count,
                         " regions)">>
                ELSE IF 100 * count > 5 * n
                  THEN <<"Some noise variation detected (", count, " regions)">>
                ELSE <<"Noise characteristics appear consistent">>,
              details |->
                ("Blocks Analyzed" :> n)
                @@ ("Outlier Blocks" :> count)
                @@ ("Outlier Ratio" :> <<toFixed(count * 100, n, 1), "%">>)
                @@ ("Mean Energy" :> toFixed(sum, n, 2))
                @@ ("Std Dev" :>
                      [scaled |-> (floorSqrt(40000 * spread) + n) \div (2 * n),
                       digits |-> 2]),
              confidence |-> 60,
              overlay |-> ImageData(img.width, img.height),
              regions |-> outlierBlocks]

\* an edge check with a warn tier above a strong-edge ratio of 0.05
checkEdgeInconsistencyTiered(img) ==
  LET pixelCount == img.width * img.height
      strongEdgeCount == (pixelCount * img.pixels.strongEdges) \div 1000
  IN  [id |-> "edge-consistency",
       name |-> "Edge Analysis",
       status |-> IF 100 * strongEdgeCount > 5 * pixelCount THEN "warn"
                  ELSE IF 100 * strongEdgeCount > 2 * pixelCount THEN "info"
                  ELSE "ok",
       summary |-> <<"Contains sharp edges worth reviewing">>,
       details |->
         ("Mean Edge Strength" :> [scaled |-> img.pixels.meanEdge, digits |-> 2])
         @@ ("Strong Edge Ratio" :>
               <<toFixed(strongEdgeCount * 100, pixelCount, 2), "%">>),
       confidence |-> 50,
       overlay |-> ImageData(img.width, img.height)]

checkEdgeInconsistency(img) ==
  LET pixelCount == img.width * img.height
      strongEdgeCount == (pixelCount * img.pixels.strongEdges) \div 1000
  IN  [id |-> "edge-consistency",
       name |-> "Edge Analysis",
       status |-> IF 100 * strongEdgeCount > 2 * pixelCount THEN "info" ELSE "ok",
       summary |->
         IF 100 * strongEdgeCount > 2 * pixelCount
           THEN <<"Contains sharp edges worth reviewing">>
         ELSE <<"Edge characteristics appear natural">>,
       details |->
         ("Mean Edge Strength" :> [scaled |-> img.pixels.meanEdge, digits |-> 2])
         @@ ("Strong Edge Ratio" :>
               <<toFixed(strongEdgeCount * 100, pixelCount, 2), "%">>),
       confidence |-> 50,
       overlay |-> ImageData(img.width, img.height)]

Region(p, size) == [x |-> p.x, y |-> p.y, width |-> size, height |-> size]

RECURSIVE keepUnique(_, _, _)
\* the loop of deduplicateRegions: unique so far, regions still to visit
keepUnique(unique, regions, margin) ==
  IF regions = <<>> THEN unique
  ELSE LET region == Head(regions)
           isDuplicate ==
             \E k \in DOMAIN unique :
                /\ Abs(region.x - unique[k].x) < margin
                /\ Abs(region.y - unique[k].y) < margin
       IN  keepUnique(IF isDuplicate THEN unique ELSE Append(unique, region),
                      Tail(regions), margin)

\* a de-duplication whose margin is wider than the distance required of a pair
deduplicateWidely(regions, margin) == keepUnique(<<>>, regions, 3 * margin)

\* a de-duplication that keeps every candidate
keepEvery(regions, margin) == regions

deduplicateRegions(regions, margin) == keepUnique(<<>>, regions, margin)

RECURSIVE pairsFrom(_, _, _, _)
\* the regions pushed for the pairs (i, j), (i, j + 1), ... of one hash
pairsFrom(positions, i, j, blockSize) ==
  IF i >= Len(positions) THEN <<>>
  ELSE IF j > Len(positions) THEN pairsFrom(positions, i + 1, i + 2, blockSize)
  ELSE LET dx == positions[i].x - positions[j].x
           dy == positions[i].y - positions[j].y
           minDistance == blockSize * 2
       IN  (IF dx * dx + dy * dy > minDistance * minDistance
              THEN <<Region(positions[i], blockSize), Region(positions[j], blockSize)>>
              ELSE <<>>)
           \o pairsFrom(positions, i, j + 1, blockSize)

RECURSIVE duplicatesOf(_, _)
duplicatesOf(buckets, blockSize) ==
  IF buckets = <<>> THEN <<>>
  ELSE pairsFrom(Head(buckets), 1, 2, blockSize)
       \o duplicatesOf(Tail(buckets), blockSize)

\* the hash buckets of the positions the scan samples: x = bx * step with
\* bx < blocksX, y = by * step with by < blocksY
sampledBuckets(img, step, blocksX, blocksY) ==
  [b \in DOMAIN img.pixels.buckets |->
     SelectSeq(img.pixels.buckets[b],
               LAMBDA p : /\ p.x % step = 0 /\ p.x \div step < blocksX
                          /\ p.y % step = 0 /\ p.y \div step < blocksY)]

\* a block count that includes the last origin at which a block still fits
blocksCountingLast(length, blockSize, step) == (length - blockSize) \div step + 1

\* blocksX and blocksY: Math.floor((length - blockSize) / step)
blocksAlong(length, blockSize, step) == (length - blockSize) \div step

checkCloneDetection(img, deepScan) ==
  LET blockSize == IF deepScan THEN 16 ELSE 32
      step == IF deepScan THEN 8 ELSE 16
      blocksX == blocksAlong(img.width, blockSize, step)
      blocksY == blocksAlong(img.height, blockSize, step)
      duplicateRegions ==
        duplicatesOf(sampledBuckets(img, step, blocksX, blocksY), blockSize)
      uniqueRegions == deduplicateRegions(duplicateRegions, blockSize)
      matches == Len(uniqueRegions)
  IN  IF blocksX < 4 \/ blocksY < 4
        THEN [id |-> "clone-detection",
              name |-> "Clone Detection",
              status |-> "info",
              summary |-> <<"Image too small for clone analysis">>,
              details |-> ("Analysis" :> "Skipped - insufficient resolution"),
              confidence |-> 20]
        ELSE [id |-> "clone-detection",
              name |-> IF deepScan THEN "Clone Detection (Deep Scan)"
                       ELSE "Clone Detection",
              status |-> IF matches > 10 THEN "warn"
                         ELSE IF matches > 0 THEN "info"
                         ELSE "ok",
              summary |->
                IF matches > 10
                  THEN <<"Potential cloned regions detected (", matches, " matches)">>
                ELSE IF matches > 0
                  THEN <<"Some similar regions found (", matches, " matches)">>
                ELSE <<"No obvious cloned regions detected">>,
              details |->
                ("Scan Type" :> IF deepScan THEN "Deep (slower, more thorough)"
                                ELSE "Quick")
                @@ ("Block Size" :> <<blockSize, "px">>)
                @@ ("Matches Found" :> matches)
                @@ ("Blocks Analyzed" :> blocksX * blocksY),
              confidence |-> IF deepScan THEN 60 ELSE 40,
              regions |-> uniqueRegions]

runPixelChecks(img, deepCloneScan) ==
  <<checkNoiseConsistency(img), checkEdgeInconsistency(img),
    checkCloneDetection(img, deepCloneScan)>>

(***************************************************************************)
(* elaCheck.                                                               *)
(***************************************************************************)
ELA_QUALITY == 90

\* the errors reencodeJpeg rejects with
ReencodeErrors ==
  {"Failed to create blob", "Could not get canvas context",
   "Failed to load reencoded image"}

\* what the re-encode round trip ends with: "resolved" or one of its errors
ReencodeOutcomes == {"resolved"} \cup ReencodeErrors

\* a performELA that hands every image to the re-encoder
elaAlwaysReencodes(img) == NullObject

\* the result of performELA before the re-encoder is called, NullObject when
\* the re-encoder is needed
elaWithoutReencode(img) ==
  LET fileType == detectFileType(img.arrayBuffer)
  IN  IF fileType # "image/jpeg"
        THEN [id |-> "ela",
              name |-> "Error Level Analysis",
              status |-> "info",
              summary |-> <<"ELA not applicable (non-JPEG)">>,
              details |-> ("Format" :> OrElse(fileType, "Unknown"))
                          @@ ("Note" :> "ELA is designed for JPEG images"),
              confidence |-> 30]
        ELSE NullObject

\* the result of performELA once the re-encode round trip has ended
elaAfterReencode(img, outcome) ==
  IF outcome = "resolved"
    THEN [id |-> "ela",
          name |-> "Error Level Analysis",
          status |-> IF img.pixels.ela.variance > 2000 THEN "warn" ELSE "info",
          summary |->
            IF img.pixels.ela.variance > 2000
              THEN <<"ELA shows notable variation (review recommended)">>
            ELSE <<"ELA shows relatively uniform error levels">>,
          details |->
            ("Re-encode Quality" :> <<ELA_QUALITY, "%">>)
            @@ ("Average Difference" :> [scaled |-> img.pixels.ela.avg, digits |-> 2])
            @@ ("Max Difference" :> [scaled |-> img.pixels.ela.max, digits |-> 2])
            @@ ("Variance" :> [scaled |-> img.pixels.ela.variance, digits |-> 2]),
          confidence |-> 40,
          overlay |-> ImageData(img.width, img.height)]
    ELSE [id |-> "ela",
          name |-> "Error Level Analysis",
          status |-> "info",
          summary |-> <<"ELA analysis failed">>,
          details |-> ("Error" :> outcome),
          confidence |-> 10]

\* a runELACheck that reports a failed analysis as a failed check
runELACheckFailing(result) ==
  <<[result EXCEPT !.status = IF result.confidence = 10 THEN "fail" ELSE @]>>

\* a runELACheck that reports nothing
runELACheckSilent(result) == <<>>

\* runELACheck on the result of performELA
runELACheck(result) == Present(<<result>>)

(***************************************************************************)
(* socialMediaHint.                                                        *)
(***************************************************************************)
SOCIAL_MEDIA_DIMENSIONS ==
  << [width |-> 2048, platform |-> "Facebook/Instagram"],
     [width |-> 1080, platform |-> "Instagram"],
     [width |-> 1200, platform |-> "Twitter"],
     [width |-> 1280, platform |-> "Twitter/Telegram"],
     [width |-> 1600, platform |-> "Various"],
     [width |-> 4096, platform |-> "Twitter 4K"] >>

RECURSIVE dimensionSignalWithinTen(_, _)
\* a loop that also takes a distance of exactly 10 pixels for close
dimensionSignalWithinTen(maxDim, k) ==
  IF k > Len(SOCIAL_MEDIA_DIMENSIONS) THEN <<>>
  ELSE LET pattern == SOCIAL_MEDIA_DIMENSIONS[k]
       IN  IF maxDim = pattern.width
             THEN << [score |-> 2,
                      text |-> <<"Max dimension ", pattern.width,
                                 "px (common for ", pattern.platform, ")">>] >>
           ELSE IF Abs(maxDim - pattern.width) <= 10
             THEN << [score |-> 1,
                      text |-> <<"Max dimension ~", pattern.width,
                                 "px (close to ", pattern.platform, " limit)">>] >>
           ELSE dimensionSignalWithinTen(maxDim, k + 1)

RECURSIVE dimensionSignal(_, _)
\* the loop over SOCIAL_MEDIA_DIMENSIONS from entry k on: the signal of the
\* first entry that matches, none when no entry matches
dimensionSignal(maxDim, k) ==
  IF k > Len(SOCIAL_MEDIA_DIMENSIONS) THEN <<>>
  ELSE LET pattern == SOCIAL_MEDIA_DIMENSIONS[k]
       IN  IF maxDim = pattern.width
             THEN << [score |-> 2,
                      text |-> <<"Max dimension ", pattern.width,
                                 "px (common for ", pattern.platform, ")">>] >>
           ELSE IF Abs(maxDim - pattern.width) < 10
             THEN << [score |-> 1,
                      text |-> <<"Max dimension ~", pattern.width,
                                 "px (close to ", pattern.platform, " limit)">>] >>
           ELSE dimensionSignal(maxDim, k + 1)

\* aspect-ratio signals that take a ratio within 0.2 for close
aspectSignalsWithinFifth(width, height) ==
  (IF Abs(10 * width - 10 * height) < 2 * height
     THEN << [score |-> 1,
              text |-> <<"Square aspect ratio (1:1) - common on Instagram">>] >>
     ELSE <<>>)
  \o (IF \/ Abs(10 * width - 8 * height) < 2 * height
         \/ Abs(100 * width - 125 * height) < 20 * height
        THEN << [score |-> 1,
                 text |-> <<"4:5 or 5:4 aspect ratio - common on Instagram">>] >>
        ELSE <<>>)
  \o (IF \/ Abs(1000 * width - 1778 * height) < 200 * height
         \/ Abs(10000 * width - 5625 * height) < 2000 * height
        THEN << [score |-> 1,
                 text |-> <<"16:9 aspect ratio - common for video thumbnails">>] >>
        ELSE <<>>)

\* Check 4: the signals of the aspect ratio width / height: 1:1 within 0.01,
\* 4:5 or 5:4 within 0.02, 16:9 (1.778) or 9:16 (0.5625) within 0.02
aspectSignals(width, height) ==
  (IF Abs(100 * width - 100 * height) < height
     THEN << [score |-> 1,
              text |-> <<"Square aspect ratio (1:1) - common on Instagram">>] >>
     ELSE <<>>)
  \o (IF \/ Abs(100 * width - 80 * height) < 2 * height
         \/ Abs(100 * width - 125 * height) < 2 * height
        THEN << [score |-> 1,
                 text |-> <<"4:5 or 5:4 aspect ratio - common on Instagram">>] >>
        ELSE <<>>)
  \o (IF \/ Abs(1000 * width - 1778 * height) < 20 * height
         \/ Abs(10000 * width - 5625 * height) < 200 * height
        THEN << [score |-> 1,
                 text |-> <<"16:9 aspect ratio - common for video thumbnails">>] >>
        ELSE <<>>)

\* the signals of checkSocialMediaHint, in the order the code evaluates them;
\* the second quality step scores without recording a signal text
socialSignals(img, exifData, jpegQuality) ==
  LET width == img.width
      height == img.height
      isJpegWithQuality ==
        /\ detectFileType(img.arrayBuffer) = "image/jpeg"
        /\ jpegQuality # NullNumber
      \* a comparison with NaN is false
      below(limit) == jpegQuality.kind = "number" /\ jpegQuality.value < limit
  IN  (IF exifData = NullObject \/ DOMAIN exifData = {}
         THEN << [score |-> 2,
                  text |-> <<"No EXIF metadata (stripped by most platforms)">>] >>
         ELSE <<>>)
      \o dimensionSignal(Max(width, height), 1)
      \o (IF isJpegWithQuality /\ below(85)
            THEN << [score |-> 1,
                     text |-> <<"JPEG quality ~", jpegQuality.value,
                                "% (social platforms often recompress)">>] >>
            ELSE <<>>)
      \o (IF isJpegWithQuality /\ below(70)
            THEN << [score |-> 1, text |-> <<>>] >>
            ELSE <<>>)
      \o aspectSignals(width, height)

\* the detail key `Signal ${idx + 1}`
signalKey(i) ==
  CASE i = 1 -> "Signal 1" [] i = 2 -> "Signal 2" [] i = 3 -> "Signal 3"
    [] i = 4 -> "Signal 4" [] i = 5 -> "Signal 5" [] OTHER -> "Signal 6"

checkSocialMediaHint(img, exifData, jpegQuality) ==
  LET scored == socialSignals(img, exifData, jpegQuality)
      score == SumSeq([i \in DOMAIN scored |-> scored[i].score])
      signals == SelectSeq(scored, LAMBDA g : g.text # <<>>)
  IN  [id |-> "social-media-hint",
       name |-> "Social Media Detection",
       status |-> IF score >= 2 THEN "info" ELSE "ok",
       summary |->
         IF score >= 4 THEN <<"Likely re-shared through social media">>
         ELSE IF score >= 2 THEN <<"Some signs of possible social media sharing">>
         ELSE <<"No strong indicators of social media reupload">>,
       details |->
         ("Detection Score" :> <<score, "/8">>)
         @@ ("Signals Found" :> Len(signals))
         @@ [k \in {signalKey(i) : i \in DOMAIN signals} |->
               signals[CHOOSE i \in DOMAIN signals : signalKey(i) = k].text],
       confidence |-> IF score >= 4 THEN 70 ELSE IF score >= 2 THEN 50 ELSE 40]

runSocialMediaCheck(img, exifData, jpegQuality) ==
  <<checkSocialMediaHint(img, exifData, jpegQuality)>>

\* a File: its declared mime and name, its bytes, and what the bytes hold for
\* the metadata extractor to find
File(container, exif) ==
  [type |-> container[1][1], name |-> container[1][2], bytes |-> container[2],
   exif |-> exif]

\* the files a caller submits: every container without metadata, and a JPEG
\* and a PNG with each sample of metadata
Files ==
  { File(c, NullObject) : c \in SampleContainers }
  \cup { File(<<d, b>>, e) : d \in { x \in SampleDescriptors : x[1] = "image/jpeg" },
                             b \in {JpegBytes(80), PngBytes}, e \in SampleExif }

(***************************************************************************)
(* pipeline: loadImage.                                                    *)
(***************************************************************************)
validTypes == {"image/jpeg", "image/png", "image/gif", "image/webp"}

\* file.name.match(/\.(jpg|jpeg|png|gif|webp)$/i)
NameHasImageExtension(name) ==
  /\ Len(name) >= 2
  /\ toLowerCase(name[Len(name)]) \in {"jpg", "jpeg", "png", "gif", "webp"}

\* a loadImage that trusts the declared type and the name
declaredTypeRejection(f) ==
  IF f.type \notin validTypes /\ ~NameHasImageExtension(f.name)
    THEN "Unsupported file format. Please use JPG, PNG, GIF, or WebP."
  ELSE Null

\* the error loadImage throws for the file, or Null when it goes on to decode
loadImageRejection(f) ==
  IF f.type \notin validTypes /\ ~NameHasImageExtension(f.name)
    THEN "Unsupported file format. Please use JPG, PNG, GIF, or WebP."
  ELSE IF detectFileType(f.bytes) = Null
    THEN "Could not verify file type. The file may be corrupted or in an unsupported format."
  ELSE Null

\* the pixel buffer the loader decodes: a JPEG decodes to opaque pixels
Decoded(px, bytes) ==
  [px EXCEPT !.hasAlpha = px.hasAlpha /\ detectFileType(bytes) # "image/jpeg"]

\* the errors createCanvasFromFile rejects with
DecodeErrors ==
  {"Failed to read file", "Failed to load image", "Could not get canvas context"}


(***************************************************************************)
(* pipeline: summary, verdict, deep rescan and export.                     *)
(***************************************************************************)
\* a tally that ignores the status it is asked for
CountEvery(checks, status) == Len(checks)

CountStatus(checks, status) ==
  Len(SelectSeq(checks, LAMBDA c : c.status = status))

Summary(checks) ==
  [okCount   |-> CountStatus(checks, "ok"),
   warnCount |-> CountStatus(checks, "warn"),
   failCount |-> CountStatus(checks, "fail"),
   infoCount |-> CountStatus(checks, "info")]

\* a verdict whose warning threshold is one higher
OverallStatusAboveThree(summary) ==
  IF summary.failCount > 0 \/ summary.warnCount > 3 THEN "suspicious"
  ELSE IF summary.warnCount > 0 THEN "review"
  ELSE "clean"

OverallStatus(summary) ==
  IF summary.failCount > 0 \/ summary.warnCount >= 3 THEN "suspicious"
  ELSE IF summary.warnCount > 0 THEN "review"
  ELSE "clean"

\* allChecks.unshift(...results)
Unshift(allChecks, results) == results \o allChecks

\* allChecks.push(...results)
Push(allChecks, results) == allChecks \o results

\* the ids of the checks that ran when the stage computing `results` in order
\* stopped at the check `thrown` (Null: no check threw)
RanUntil(results, thrown) ==
  LET ids == [i \in DOMAIN results |-> results[i].id]
  IN  IF thrown = Null THEN ids
      ELSE SubSeq(ids, 1, CHOOSE i \in DOMAIN ids : ids[i] = thrown)

\* the checks among `results` that allocate buffers of the size of the image
\* (new Float32Array(width * height), new ImageData(width, height)) and so
\* throw a RangeError when the allocation fails; analyzeBlockBoundaries
\* allocates from 16 by 16 pixels on
Allocating(img, results) ==
  { results[i].id : i \in DOMAIN results } \cap
  ({"uniform-areas", "noise-consistency", "edge-consistency"}
   \cup (IF img.width < 16 \/ img.height < 16 THEN {}
         ELSE {"double-compression"}))

\* pixelChecks.find(c => c.id === 'clone-detection')
findCloneDetection(pixelChecks) ==
  pixelChecks[CHOOSE i \in DOMAIN pixelChecks :
                /\ pixelChecks[i].id = "clone-detection"
                /\ \A j \in 1..(i - 1) : pixelChecks[j].id # "clone-detection"]

OVERLAY_PLACEHOLDER == "[ImageData - not exported]"

\* the value undefined of a property that holds a text
UndefinedValue == "undefined"

\* the export with the two branches of the overlay test exchanged
exportableCheckInverted(check) ==
  [k \in DOMAIN check \cup {"overlay"} |->
     IF k = "overlay"
       THEN IF "overlay" \in DOMAIN check THEN UndefinedValue
            ELSE OVERLAY_PLACEHOLDER
       ELSE check[k]]

\* { ...check, overlay: check.overlay ? placeholder : undefined }
exportableCheck(check) ==
  [k \in DOMAIN check \cup {"overlay"} |->
     IF k = "overlay"
       THEN IF "overlay" \in DOMAIN check THEN OVERLAY_PLACEHOLDER
            ELSE UndefinedValue
       ELSE check[k]]

exportable(report) ==
  [report EXCEPT !.checks = [i \in DOMAIN @ |-> exportableCheck(@[i])]]

(***************************************************************************)
(* JSON.  The text JSON.stringify writes is kept as the tree of its        *)
(* productions: objects with their members, arrays with their elements,    *)
(* literals.  A property whose value is undefined is not written.          *)
(***************************************************************************)
JObject(members)  == [json |-> "object", members |-> members]
JArray(elements)  == [json |-> "array", elements |-> elements]
JLiteral(value)   == [json |-> "literal", value |-> value]

\* an object whose properties hold texts, numbers or booleans
stringifyScalars(obj) == JObject([k \in DOMAIN obj |-> JLiteral(obj[k])])

stringifyCheck(check) ==
  JObject([k \in {p \in DOMAIN check :
                    p # "overlay" \/ check.overlay # UndefinedValue} |->
             CASE k = "details" -> stringifyScalars(check.details)
               [] k = "regions" ->
                    JArray([i \in DOMAIN check.regions |->
                              stringifyScalars(check.regions[i])])
               [] OTHER -> JLiteral(check[k])])

JSONstringify(report) ==
  JObject([k \in DOMAIN report |->
             CASE k = "checks" ->
                    JArray([i \in DOMAIN report.checks |->
                              stringifyCheck(report.checks[i])])
               [] k \in {"dimensions", "summary"} -> stringifyScalars(report[k])
               [] OTHER -> JLiteral(report[k])])

RECURSIVE JSONparse(_)
JSONparse(doc) ==
  CASE doc.json = "object" -> [k \in DOMAIN doc.members |-> JSONparse(doc.members[k])]
    [] doc.json = "array" -> [i \in DOMAIN doc.elements |-> JSONparse(doc.elements[i])]
    [] OTHER -> doc.value

exportReportJSON(report) == JSONstringify(exportable(report))

(***************************************************************************)
(* State.                                                                  *)
(***************************************************************************)
\* the callers of extractExif in one run: the two metadata checks, run
\* together, and the pipeline itself on behalf of the social heuristic
MetadataChecks == {"exif-presence", "editing-software"}
Extractions == MetadataChecks \cup {"social-media-hint"}

VARIABLES
  file,           \* the File submitted by the caller
  loadState,      \* "pending", "loaded" or "failed": the promise of loadImage
  loadError,      \* the error loadImage rejected with, or Null
  image,          \* the ImageFile loadImage resolved with, or NullObject
  exifr,          \* the lazily imported extractor module: Null or "loaded"
  pc,             \* where runForensicPipeline stands
  deepCloneScan,  \* options.deepCloneScan of the run
  allChecks,      \* allChecks of the run
  progress,       \* the percentages passed to onProgress, in order
  ext,            \* per caller of extractExif: where it stands, its result
  exifData,       \* exifData of the run
  jpegQuality,    \* jpegQuality of the run
  elaOutcome,     \* how the re-encode round trip ended, Null before
  elaResult,      \* what performELA resolved with, NullObject before
  threw,          \* the check whose computation threw out of its stage, or Null
  report,         \* the ForensicReport the run resolved with, or NullObject
  deepRan,        \* the checks the last deep rescan computed, <<>> before
  deepResult,     \* what the last deep rescan returned, NullObject if it threw
  exported,       \* the JSON of the last export, NullObject before
  cancelRequested, \* the caller wants the run stopped
  direct          \* the last direct call of an exported function: its name,
                  \* its arguments and what it returned; NullObject before

pipelineVars ==
  <<pc, deepCloneScan, allChecks, progress, ext, exifData, jpegQuality,
    elaOutcome, elaResult, threw, report>>
callerVars == <<deepRan, deepResult, exported, cancelRequested>>
loadVars == <<file, loadState, loadError, image>>
vars == <<loadVars, exifr, pipelineVars, callerVars, direct>>

idleExtraction == [pc |-> "idle", failed |-> FALSE, result |-> NullObject]

Init ==
  /\ file \in Files
  /\ loadState = "pending"
  /\ loadError = Null
  /\ image = NullObject
  /\ exifr = Null
  /\ pc = "idle"
  /\ deepCloneScan = FALSE
  /\ allChecks = <<>>
  /\ progress = <<>>
  /\ ext = [c \in Extractions |-> idleExtraction]
  /\ exifData = NullObject
  /\ jpegQuality = NullNumber
  /\ elaOutcome = Null
  /\ elaResult = NullObject
  /\ threw = Null
  /\ report = NullObject
  /\ deepRan = <<>>
  /\ deepResult = NullObject
  /\ exported = NullObject
  /\ cancelRequested = FALSE
  /\ direct = NullObject

(***************************************************************************)
(* loadImage.                                                              *)
(***************************************************************************)
LoadImage ==
  /\ loadState = "pending"
  /\ IF loadImageRejection(file) # Null
       THEN /\ loadState' = "failed"
            /\ loadError' = loadImageRejection(file)
            /\ image' = NullObject
       ELSE \/ \E e \in DecodeErrors :
                 /\ loadState' = "failed"
                 /\ loadError' = e
                 /\ image' = NullObject
            \/ \E d \in SampleDecodings :
                 /\ loadState' = "loaded"
                 /\ loadError' = Null
                 /\ image' = [file |-> file, arrayBuffer |-> file.bytes,
                              width |-> d[1], height |-> d[2],
                              pixels |-> Decoded(d[3], file.bytes)]
  /\ UNCHANGED <<file, exifr, pipelineVars, callerVars, direct>>

(***************************************************************************)
(* runForensicPipeline.                                                    *)
(***************************************************************************)
\* a sink that is never notified
onProgressUnheard(notified, percent) == notified

\* onProgress?.(message, percent): the sink is notified of the percentage
onProgress(notified, percent) == Append(notified, percent)

\* extractExif is called: getExifr imports the module unless it is cached
startedExtraction(cache) ==
  [pc |-> IF cache = Null THEN "import" ELSE "parse",
   failed |-> FALSE, result |-> NullObject]

\* extractExif returns for the extractor outcome
endedExtraction(found, outcome) ==
  [pc |-> "done", failed |-> outcome # "parsed",
   result |-> extractExif(found, outcome)]

\* Stage 1, and the start of stage 2: both metadata checks call extractExif
StartPipeline ==
  /\ loadState = "loaded"
  /\ pc = "idle"
  /\ \E deep \in BOOLEAN : deepCloneScan' = deep
  /\ allChecks' = Push(allChecks, runFileChecks(image))
  /\ progress' = onProgress(onProgress(progress, 10), 25)
  /\ ext' = [c \in Extractions |->
               IF c \in MetadataChecks THEN startedExtraction(exifr) ELSE ext[c]]
  /\ pc' = "metadata"
  /\ UNCHANGED <<loadVars, exifr, exifData, jpegQuality, elaOutcome, elaResult,
                 threw, report, callerVars, direct>>

\* the dynamic import of the extractor module settles for caller c
ExifrImported(c) ==
  /\ ext[c].pc = "import"
  /\ \/ /\ exifr' = "loaded"
        /\ ext' = [ext EXCEPT ![c].pc = "parse"]
     \/ /\ exifr' = exifr
        /\ ext' = [ext EXCEPT ![c] = endedExtraction(file.exif, "import-failed")]
  /\ UNCHANGED <<loadVars, pc, deepCloneScan, allChecks, progress, exifData,
                 jpegQuality, elaOutcome, elaResult, threw, report, callerVars, direct>>

\* the extractor's parse settles for caller c
ExifParsed(c) ==
  /\ ext[c].pc = "parse"
  /\ \E outcome \in {"parsed", "parse-failed"} :
        ext' = [ext EXCEPT ![c] = endedExtraction(file.exif, outcome)]
  /\ UNCHANGED <<loadVars, exifr, pc, deepCloneScan, allChecks, progress,
                 exifData, jpegQuality, elaOutcome, elaResult, threw, report,
                 callerVars, direct>>

\* Promise.race in the place of Promise.all
metadataRaced(e) == \E c \in MetadataChecks : e[c].pc = "done"

\* Promise.all of runMetadataChecks
metadataSettled(e) == \A c \in MetadataChecks : e[c].pc = "done"

\* runMetadataChecks resolves; the pipeline pushes its results and calls
\* extractExif for the social heuristic
MetadataJoined ==
  /\ pc = "metadata"
  /\ metadataSettled(ext)
  /\ ~IsThrown(checkEditingSoftware(ext["editing-software"].result))
  /\ allChecks' = Push(allChecks,
                       <<checkExifPresence(ext["exif-presence"].result),
                         checkEditingSoftware(ext["editing-software"].result)>>)
  /\ ext' = [ext EXCEPT !["social-media-hint"] = startedExtraction(exifr)]
  /\ pc' = "exif"
  /\ UNCHANGED <<loadVars, exifr, deepCloneScan, progress, exifData, jpegQuality,
                 elaOutcome, elaResult, threw, report, callerVars, direct>>

\* checkEditingSoftware throws once its extractExif has returned: Promise.all
\* rejects at once, runMetadataChecks and the pipeline with it, whether or not
\* the other check has settled
MetadataRejected ==
  /\ pc = "metadata"
  /\ ext["editing-software"].pc = "done"
  /\ IsThrown(checkEditingSoftware(ext["editing-software"].result))
  /\ threw' = "editing-software"
  /\ pc' = "rejected"
  /\ UNCHANGED <<loadVars, exifr, deepCloneScan, allChecks, progress, ext,
                 exifData, jpegQuality, elaOutcome, elaResult, report, callerVars, direct>>

\* Stage 3, once extractExif has returned to the pipeline
CompressionStage ==
  /\ pc = "exif"
  /\ ext["social-media-hint"].pc = "done"
  /\ exifData' = ext["social-media-hint"].result
  /\ progress' = onProgress(progress, 40)
  /\ \E compressionResults \in {runCompressionChecks(image)} :
        LET found ==
              SelectSeq(compressionResults, LAMBDA r : r.id = "jpeg-quality")
        IN  \/ /\ allChecks' = Push(allChecks, compressionResults)
               /\ jpegQuality' =
                    IF found # <<>>
                      THEN parseInt(found[1].details["Quality Estimate"])
                      ELSE NullNumber
               /\ pc' = "pixel"
               /\ threw' = threw
            \/ \E id \in Allocating(image, compressionResults) :
                  /\ threw' = id
                  /\ pc' = "rejected"
                  /\ UNCHANGED <<allChecks, jpegQuality>>
  /\ UNCHANGED <<loadVars, exifr, deepCloneScan, ext, elaOutcome, elaResult,
                 report, callerVars, direct>>

\* Stage 4
PixelStage ==
  /\ pc = "pixel"
  /\ progress' = onProgress(progress, 55)
  /\ \E pixelResults \in {runPixelChecks(image, deepCloneScan)} :
         \/ /\ allChecks' = Push(allChecks, pixelResults)
            /\ pc' = "ela"
            /\ threw' = threw
         \/ \E id \in Allocating(image, pixelResults) :
               /\ threw' = id
               /\ pc' = "rejected"
               /\ allChecks' = allChecks
  /\ UNCHANGED <<loadVars, exifr, deepCloneScan, ext, exifData, jpegQuality,
                 elaOutcome, elaResult, report, callerVars, direct>>

\* Stage 5: performELA answers a non-JPEG at once and its result is pushed;
\* for a JPEG it awaits the re-encoder
ElaStage ==
  /\ pc = "ela"
  /\ progress' = onProgress(progress, 75)
  /\ \E result \in {elaWithoutReencode(image)} :
        /\ elaResult' = result
        /\ IF result = NullObject
             THEN /\ pc' = "reencode"
                  /\ allChecks' = allChecks
             ELSE /\ pc' = "social"
                  /\ allChecks' = Push(allChecks, runELACheck(result))
  /\ UNCHANGED <<loadVars, exifr, deepCloneScan, ext, exifData, jpegQuality,
                 elaOutcome, threw, report, callerVars, direct>>

\* the re-encode round trip settles, performELA resolves and its result is
\* pushed
ReencodeSettled ==
  /\ pc = "reencode"
  /\ \E outcome \in ReencodeOutcomes :
        /\ elaOutcome' = outcome
        /\ elaResult' = elaAfterReencode(image, outcome)
        /\ allChecks' = Push(allChecks, runELACheck(elaAfterReencode(image, outcome)))
  /\ pc' = "social"
  /\ UNCHANGED <<loadVars, exifr, deepCloneScan, progress, ext, exifData,
                 jpegQuality, threw, report, callerVars, direct>>

\* the time new Date().toISOString() reads
Timestamps == {"2026-01-01T00:00:00.000Z"}

\* Stage 6, the summary and the report
SocialStage ==
  /\ pc = "social"
  /\ progress' = onProgress(onProgress(progress, 90), 100)
  /\ \E checks \in {Push(allChecks,
                         runSocialMediaCheck(image, exifData, jpegQuality))} :
        LET summary == Summary(checks)
        IN  /\ allChecks' = checks
            /\ \E now \in Timestamps :
                  report' =
                    [filename |-> image.file.name,
                     fileSize |-> Len(image.file.bytes),
                     dimensions |-> [width |-> image.width,
                                     height |-> image.height],
                     mimeType |-> OrElse(image.file.type,
                                         OrElse(detectFileType(image.arrayBuffer),
                                                "unknown")),
                     timestamp |-> now,
                     checks |-> checks,
                     overallStatus |-> OverallStatus(summary),
                     summary |-> summary]
  /\ pc' = "done"
  /\ UNCHANGED <<loadVars, exifr, deepCloneScan, ext, exifData, jpegQuality,
                 elaOutcome, elaResult, threw, callerVars, direct>>

(***************************************************************************)
(* The caller's operations on a finished run.                              *)
(***************************************************************************)
\* runDeepCloneScan, called on the image of a run that has ended
RunDeepCloneScan ==
  /\ loadState = "loaded"
  /\ pc \in {"done", "rejected"}
  /\ \E pixelChecks \in {runPixelChecks(image, TRUE)} :
         \/ /\ deepRan' = RanUntil(pixelChecks, Null)
            /\ deepResult' = findCloneDetection(pixelChecks)
         \/ \E id \in Allocating(image, pixelChecks) :
               /\ deepRan' = RanUntil(pixelChecks, id)
               /\ deepResult' = NullObject
  /\ UNCHANGED <<loadVars, exifr, pipelineVars, exported, cancelRequested, direct>>

ExportReportJSON ==
  /\ pc = "done"
  /\ exported' = exportReportJSON(report)
  /\ UNCHANGED <<loadVars, exifr, pipelineVars, deepRan, deepResult,
                 cancelRequested, direct>>

Next ==
  \/ LoadImage
  \/ StartPipeline
  \/ \E c \in Extractions : ExifrImported(c)
  \/ \E c \in Extractions : ExifParsed(c)
  \/ MetadataJoined
  \/ MetadataRejected
  \/ CompressionStage
  \/ PixelStage
  \/ ElaStage
  \/ ReencodeSettled
  \/ SocialStage
  \/ RunDeepCloneScan
  \/ ExportReportJSON

Spec == Init /\ [][Next]_vars

(***************************************************************************)
(* A caller that wants a run stopped.  PipelineOptions has the members     *)
(* deepCloneScan and onProgress and runForensicPipeline reads nothing      *)
(* else, so the wish reaches no statement of the run.                      *)
(***************************************************************************)
RequestCancellation ==
  /\ pc \notin {"idle", "done", "rejected"}
  /\ ~cancelRequested
  /\ cancelRequested' = TRUE
  /\ UNCHANGED <<loadVars, exifr, pipelineVars, deepRan, deepResult, exported,
                 direct>>

CancelNext == Next \/ RequestCancellation

CancelSpec == Init /\ [][CancelNext]_vars

(***************************************************************************)
(* Direct calls.  index.ts re-exports detectFileType and the functions     *)
(* that run the checks of one stage "for advanced usage"; a caller applies *)
(* them to buffers and to ImageFile objects of its own, outside any run.   *)
(***************************************************************************)
\* the buffers handed to detectFileType: the first twelve bytes of a file of
\* each format, what is left of them when the file is cut short, and the
\* same with one byte set to zero
SniffBuffers ==
  LET headers ==
        { SubSeq(b, 1, 12) : b \in {JpegNoDqt, PngBytes, GifStatic, WebpStatic} }
  IN  { SubSeq(b, 1, k) : b \in headers, k \in 0..12 }
      \cup { [b EXCEPT ![i] = 0] : b \in headers, i \in 1..12 }

\* the buffers of the ImageFile objects handed to runFileChecks: the sample
\* files, a GIF cut short three bytes into its second Graphic Control
\* Extension and a WebP cut short after the tag of its ANIM chunk
FileCheckBuffers ==
  { JpegNoDqt, PngBytes, GifStatic, GifAnimated, WebpStatic, WebpAnimated,
    RiffWave,
    <<71, 73, 70, 56, 57, 97, 33, 249, 4, 0, 0, 0, 33, 249, 4>>,
    <<82, 73, 70, 70, 0, 0, 0, 0, 87, 69, 66, 80, 65, 78, 73, 77>> }

\* declared mime and name of the files of those objects
FileCheckDescriptors ==
  SampleDescriptors
  \cup { <<"image/jpeg", <<"photo">> >>,
         <<"image/jpeg", <<"holiday", "constructor">> >>,
         <<"", <<"scan", "jpg">> >>, <<"image/gif", <<"clip", "gif">> >>,
         <<"image/webp", <<"clip", "webp">> >> }

\* the ImageFile loadImage builds for the file decoded to w by h pixels
ImageFile(f, w, h, px) ==
  [file |-> f, arrayBuffer |-> f.bytes, width |-> w, height |-> h,
   pixels |-> Decoded(px, f.bytes)]

FileCheckImages ==
  { ImageFile(File(<<d, b>>, NullObject), 64, 48, QuietPixels) :
      d \in FileCheckDescriptors, b \in FileCheckBuffers }

\* the buffers of the JPEGs whose quality is estimated: one DQT segment of
\* length 67 with each first quantization value; no DQT segment; one that
\* declares the length 66; a file that ends with its DQT segment (marker,
\* length 67, table); and two DQT segments, the first a 16-bit table whose
\* first entry is below 256, so that the byte read as q0 is 0, the second a
\* table that starts with 16
QualityBuffers ==
  { JpegBytes(q0) : q0 \in {0, 1, 2, 9, 10, 16, 49, 50, 51, 99, 100, 255} }
  \cup { JpegNoDqt,
         <<255, 216, 255, 224, 255, 219, 0, 66, 0, 16>> \o Zeros(70),
         <<255, 216, 255, 224>> \o Zeros(8) \o <<255, 219, 0, 67, 0, 16>>
           \o Zeros(64),
         <<255, 216, 255, 224, 255, 219, 0, 131, 16, 0, 16>> \o Zeros(126)
           \o <<255, 219, 0, 67, 0, 16>> \o Zeros(80) }

\* the ImageFile objects handed to runCompressionChecks: a JPEG of each
\* buffer, and PNGs of three sizes with each share of uniform blocks
CompressionImages ==
  LET jpeg(b) == File(<<<<"image/jpeg", <<"photo", "jpg">> >>, b>>, NullObject)
      png == File(<<<<"image/png", <<"photo", "png">> >>, PngBytes>>, NullObject)
  IN  { ImageFile(jpeg(b), 128, 128, QuietPixels) : b \in QualityBuffers }
      \cup { ImageFile(png, d[1], d[2], [QuietPixels EXCEPT !.uniformPct = u]) :
               d \in {<<16, 64>>, <<64, 64>>, <<160, 160>>},
               u \in {0, 10, 11, 30, 31, 100} }

\* the ImageFile objects handed to runPixelChecks: images of six sizes with
\* up to three pairs of blocks of deviating energy, images with four shares
\* of strong edges, and 256x256 images of noise in which one 32x32 block
\* lies at two places, given by the corners of the two copies
PixelImages ==
  LET png == File(<<<<"image/png", <<"photo", "png">> >>, PngBytes>>, NullObject)
  IN  { ImageFile(png, d[1], d[2], [QuietPixels EXCEPT !.spikes = k]) :
          d \in { <<64, 96>>, <<95, 200>>, <<96, 96>>, <<128, 128>>,
                  <<416, 96>>, <<256, 192>> },
          k \in 0..3 }
      \cup { ImageFile(png, 128, 128, [QuietPixels EXCEPT !.strongEdges = e]) :
               e \in {0, 20, 21, 100} }
      \cup { ImageFile(png, 256, 256, [QuietPixels EXCEPT !.buckets = <<c>>]) :
               c \in { <<Pos(0, 0), Pos(80, 0)>>, <<Pos(0, 0), Pos(64, 0)>>,
                       <<Pos(16, 16), Pos(96, 96)>>, <<Pos(5, 0), Pos(105, 0)>>,
                       <<Pos(5, 3), Pos(85, 3)>>, <<Pos(0, 0), Pos(224, 0)>>,
                       <<Pos(32, 0), Pos(32, 224)>>,
                       <<Pos(0, 0), Pos(208, 208)>>, <<Pos(0, 0), Pos(16, 0)>>,
                       <<Pos(0, 0), Pos(48, 48)>>, <<Pos(0, 0), Pos(24, 24)>>,
                       <<Pos(0, 0), Pos(80, 0), Pos(160, 0)>> } }
      \cup { ImageFile(png, 256, 256,
                        [QuietPixels EXCEPT !.buckets =
                           << <<Pos(0, 0), Pos(80, 0)>>,
                              <<Pos(16, 0), Pos(96, 0)>> >>]) }

\* the images and inputs of the social heuristic: a JPEG and a PNG of each
\* size; the sizes put the larger side on, 9, 10 and 11 pixels from, and far
\* from the platform widths, and the aspect ratio on, just inside and just
\* outside each of the ratios the heuristic knows
SocialImages ==
  { ImageFile(File(<<<<"image/jpeg", <<"photo", "jpg">> >>, b>>, NullObject),
              d[1], d[2], QuietPixels) :
      b \in {JpegBytes(80), PngBytes},
      d \in { <<1080, 1080>>, <<1080, 700>>, <<1070, 700>>, <<1071, 700>>,
              <<1089, 700>>, <<1090, 700>>, <<1091, 700>>, <<1071, 600>>,
              <<2048, 1365>>, <<2038, 1365>>, <<2039, 1365>>, <<2058, 1365>>,
              <<4096, 3000>>, <<4105, 3000>>, <<4106, 3000>>, <<1200, 630>>,
              <<1280, 720>>, <<1600, 900>>, <<600, 1600>>, <<500, 300>>,
              <<1000, 1000>>, <<1009, 1000>>, <<1011, 1000>>, <<800, 1000>>,
              <<1000, 800>>, <<819, 1000>>, <<821, 1000>>, <<1920, 1080>>,
              <<1080, 1920>>, <<1740, 1000>> } }

\* the call of fn on args returned result
Call(fn, args, result) ==
  [fn |-> fn, args |-> args, error |-> Null, result |-> result]

\* the call of fn on args threw
Threw(fn, args, error) ==
  [fn |-> fn, args |-> args, error |-> error, result |-> NullObject]

\* the call of a stage function: it returns its results, or a check that
\* allocates throws
StageCall(fn, args, results) ==
  \/ direct' = Call(fn, args, results)
  \/ \E id \in Allocating(args[1], results) :
        direct' = Threw(fn, args, "RangeError")

DirectInit ==
  /\ file = NullObject
  /\ loadState = "pending"
  /\ loadError = Null
  /\ image = NullObject
  /\ exifr = Null
  /\ pc = "idle"
  /\ deepCloneScan = FALSE
  /\ allChecks = <<>>
  /\ progress = <<>>
  /\ ext = [c \in Extractions |-> idleExtraction]
  /\ exifData = NullObject
  /\ jpegQuality = NullNumber
  /\ elaOutcome = Null
  /\ elaResult = NullObject
  /\ threw = Null
  /\ report = NullObject
  /\ deepRan = <<>>
  /\ deepResult = NullObject
  /\ exported = NullObject
  /\ cancelRequested = FALSE
  /\ direct = NullObject

DetectFileType ==
  /\ \E buffer \in SniffBuffers :
        direct' = Call("detectFileType", <<buffer>>, detectFileType(buffer))
  /\ UNCHANGED <<loadVars, exifr, pipelineVars, callerVars>>

RunFileChecks ==
  /\ \E img \in FileCheckImages :
        direct' = Call("runFileChecks", <<img>>, runFileChecks(img))
  /\ UNCHANGED <<loadVars, exifr, pipelineVars, callerVars>>

RunCompressionChecks ==
  /\ \E img \in CompressionImages :
        StageCall("runCompressionChecks", <<img>>, runCompressionChecks(img))
  /\ UNCHANGED <<loadVars, exifr, pipelineVars, callerVars>>

RunPixelChecks ==
  /\ \E img \in PixelImages, deep \in BOOLEAN :
        StageCall("runPixelChecks", <<img, deep>>, runPixelChecks(img, deep))
  /\ UNCHANGED <<loadVars, exifr, pipelineVars, callerVars>>

RunSocialMediaCheck ==
  /\ \E img \in SocialImages, exif \in {NullObject, CameraExif},
        quality \in {NullNumber, NaN, Num(60), Num(70), Num(84), Num(85)} :
        direct' = Call("runSocialMediaCheck", <<img, exif, quality>>,
                       runSocialMediaCheck(img, exif, quality))
  /\ UNCHANGED <<loadVars, exifr, pipelineVars, callerVars>>

DirectNext ==
  \/ DetectFileType
  \/ RunFileChecks
  \/ RunCompressionChecks
  \/ RunPixelChecks
  \/ RunSocialMediaCheck

DirectSpec == DirectInit /\ [][DirectNext]_vars

(***************************************************************************)
(* Properties.                                                             *)
(***************************************************************************)
Reported == report # NullObject

WithId(checks, id) == SelectSeq(checks, LAMBDA c : c.id = id)

\* C1: in every report the four status counts add up to the number of checks
\* the report lists.
C1_CountsPartitionChecks ==
  Reported =>
    report.summary.okCount + report.summary.warnCount
      + report.summary.failCount + report.summary.infoCount
    = Len(report.checks)

\* a report whose checks fall under three different statuses
C1_Witness ==
  /\ Reported
  /\ report.summary.okCount > 0
  /\ report.summary.warnCount > 0
  /\ report.summary.infoCount > 0

\* the verdict as a function of the counts alone
VerdictOfCounts(failCount, warnCount) ==
  IF failCount > 0 \/ warnCount >= 3 THEN "suspicious"
  ELSE IF warnCount > 0 THEN "review"
  ELSE "clean"

\* C2: the verdict of a report is determined by its counts: suspicious when a
\* check failed or at least three warn, review when one or two warn, clean
\* otherwise.
C2_VerdictFromCounts ==
  Reported =>
    report.overallStatus =
      VerdictOfCounts(report.summary.failCount, report.summary.warnCount)

\* a report that is suspicious on exactly three warnings
C2_Witness ==
  /\ Reported
  /\ report.summary.warnCount = 3
  /\ report.overallStatus = "suspicious"

\* the stage a check belongs to
StageOf(id) ==
  CASE id \in {"file-type", "file-properties", "animation"} -> 1
    [] id \in {"exif-presence", "editing-software"} -> 2
    [] id \in {"jpeg-quality", "double-compression", "uniform-areas"} -> 3
    [] id \in {"noise-consistency", "edge-consistency", "clone-detection"} -> 4
    [] id = "ela" -> 5
    [] id = "social-media-hint" -> 6

InStageOrder(checks) ==
  \A i, j \in DOMAIN checks :
     i < j => StageOf(checks[i].id) <= StageOf(checks[j].id)

\* C3: the checks of a report, and the checks collected so far at any moment of
\* a run, are in stage order: file, metadata, compression, pixel, ELA, social;
\* a report holds checks of all six stages.
C3_StageOrder ==
  /\ InStageOrder(allChecks)
  /\ Reported =>
       /\ InStageOrder(report.checks)
       /\ { StageOf(report.checks[i].id) : i \in DOMAIN report.checks } = 1..6

\* a report of a JPEG, in which every stage put at least one check
C3_Witness ==
  /\ Reported
  /\ Len(WithId(report.checks, "jpeg-quality")) = 1
  /\ Len(report.checks) >= 11

\* C4: a check that throws does not end the run: the run is never rejected
\* because a check threw.
C4_ThrowIsContained == ~(threw # Null /\ pc = "rejected")

\* C5: when the re-encode of a JPEG fails the run is not rejected for it, and
\* its report holds exactly one ela result, of status info and confidence 0.1
\* with the error in its details, followed by the result of the social stage.
C5_ReencodeFailure ==
  elaOutcome \in ReencodeErrors =>
    /\ pc \in {"social", "done"}
    /\ elaResult.status = "info"
    /\ elaResult.confidence = 10
    /\ elaResult.details = ("Error" :> elaOutcome)
    /\ pc = "done" =>
         /\ Reported
         /\ WithId(report.checks, "ela") = <<elaResult>>
         /\ report.checks[Len(report.checks) - 1] = elaResult
         /\ report.checks[Len(report.checks)].id = "social-media-hint"

\* a report made after the re-encode failed
C5_Witness ==
  /\ elaOutcome \in ReencodeErrors
  /\ Reported

\* C6: an extractor failure yields null to the caller of extractExif; the check
\* it was made for is then info, exif-presence at confidence 0.8 and
\* editing-software at 0.6; and no failed extraction rejects the run: a run
\* rejected before the compression stage was rejected by editing-software
\* throwing on data its own extraction did return.
C6_ExtractorFailure ==
  /\ \A c \in Extractions : ext[c].failed => ext[c].result = NullObject
  /\ \A c \in MetadataChecks :
       ext[c].failed =>
         \A i \in DOMAIN allChecks :
            allChecks[i].id = c =>
              /\ allChecks[i].status = "info"
              /\ allChecks[i].confidence =
                   (IF c = "exif-presence" THEN 80 ELSE 60)
  /\ pc = "rejected" =>
       IF threw = "editing-software"
         THEN ~ext["editing-software"].failed
         ELSE 40 \in Range(progress)

\* both metadata extractions failed on a file that holds metadata, and the
\* run is past the compression stage
C6_Witness ==
  /\ \A c \in MetadataChecks : ext[c].failed
  /\ file.exif # NullObject
  /\ pc = "pixel"
  /\ Len(WithId(allChecks, "exif-presence")) = 1
  /\ Len(WithId(allChecks, "editing-software")) = 1

C8_DeepScanRunsCloneOnly ==
  Range(deepRan) \subseteq {"clone-detection"}

\* what re-parsing the export of a report should give: the report with every
\* overlay replaced by the placeholder
ReparseExpected(r) ==
  [r EXCEPT !.checks =
     [i \in DOMAIN @ |->
        IF "overlay" \in DOMAIN @[i]
          THEN [@[i] EXCEPT !.overlay = OVERLAY_PLACEHOLDER]
          ELSE @[i]]]

\* C9: an export leaves the report as it was, and re-parsing the exported
\* JSON gives the report with each overlay replaced by the placeholder text
\* and no overlay property on the checks that had none.
C9_ExportRoundTrip ==
  [][ExportReportJSON =>
       /\ report' = report
       /\ JSONparse(exported') = ReparseExpected(report)]_vars

\* an export of a report in which some checks carry an overlay and some none
C9_Witness ==
  /\ exported # NullObject
  /\ \E i, j \in DOMAIN report.checks :
        /\ "overlay" \in DOMAIN report.checks[i]
        /\ "overlay" \notin DOMAIN report.checks[j]
  /\ \E i \in DOMAIN JSONparse(exported).checks :
        /\ "overlay" \in DOMAIN JSONparse(exported).checks[i]
        /\ JSONparse(exported).checks[i].overlay = OVERLAY_PLACEHOLDER

\* C10: the social heuristic starts, and has run, only when every metadata
\* extraction has returned and the compression stage has delivered its checks.
C10_SocialAfterInputs ==
  (pc \in {"social", "done"}) =>
    /\ \A c \in Extractions : ext[c].pc = "done"
    /\ Len(WithId(allChecks, "uniform-areas")) = 1
    /\ 40 \in Range(progress)

\* the social heuristic about to start after the extractions of the metadata
\* stage ended differently
C10_Witness ==
  /\ pc = "social"
  /\ ext["exif-presence"].failed
  /\ ~ext["editing-software"].failed
  /\ ~ext["social-media-hint"].failed

\* the score a social-media-hint result reports in `Detection Score`
ScoreOf(check) == check.details["Detection Score"][1]

\* what the quality of the JPEG adds to the score of the report: the score
\* reported less the score of the same image and metadata without a quality
QualityContribution ==
  ScoreOf(WithId(report.checks, "social-media-hint")[1])
    - ScoreOf(checkSocialMediaHint(image, exifData, NullNumber))

\* the estimate the jpeg-quality check of the report shows
ReportedEstimate ==
  WithId(report.checks, "jpeg-quality")[1].details["Quality Estimate"]

\* C11: in every report the quality of the JPEG adds to the social score 1
\* when the estimate q shown by the jpeg-quality check of the report is below
\* 85 and 1 more when it is below 70; it adds 0 when the image is not a JPEG,
\* when the report has no jpeg-quality check and when that check shows Unknown.
C11_QualityContribution ==
  Reported =>
    QualityContribution =
      IF \/ detectFileType(image.arrayBuffer) # "image/jpeg"
         \/ WithId(report.checks, "jpeg-quality") = <<>>
         \/ ReportedEstimate = <<Str("Unknown")>>
        THEN 0
        ELSE (IF ReportedEstimate[1].digits < 85 THEN 1 ELSE 0)
             + (IF ReportedEstimate[1].digits < 70 THEN 1 ELSE 0)

\* a report whose jpeg-quality check shows an estimate from 70 to 84, which
\* adds 1 and not 2
C11_Witness ==
  /\ Reported
  /\ WithId(report.checks, "jpeg-quality") # <<>>
  /\ ReportedEstimate # <<Str("Unknown")>>
  /\ ReportedEstimate[1].digits \in 70..84
  /\ QualityContribution = 1

\* the last direct call was a call of fn that returned
Called(fn) ==
  /\ direct # NullObject
  /\ direct.fn = fn
  /\ direct.error = Null

\* the buffer holds the bytes `part` from the offset on
HoldsAt(bytes, offset, part) ==
  /\ Len(bytes) >= offset + Len(part)
  /\ SubSeq(bytes, offset + 1, offset + Len(part)) = part

\* the buffer begins with the full signature of the format
HasSignature(bytes, mime) ==
  /\ HoldsAt(bytes, 0, FILE_SIGNATURES[mime])
  /\ mime = "image/webp" => HoldsAt(bytes, 8, <<87, 69, 66, 80>>)

\* C12: detectFileType returns a format exactly when the buffer begins with
\* the full signature of that format (FF D8 FF, the eight bytes of the PNG
\* signature, GIF8, RIFF with WEBP at offset 8), and null for every buffer
\* that begins with none of the four.
C12_SniffMatchesSignatures ==
  Called("detectFileType") =>
    /\ \A mime \in DOMAIN FILE_SIGNATURES :
          direct.result = mime <=> HasSignature(direct.args[1], mime)
    /\ direct.result = Null <=>
          \A mime \in DOMAIN FILE_SIGNATURES : ~HasSignature(direct.args[1], mime)

\* the type the extension of a file name implies, Null when it implies none
ImpliedType(name) ==
  LET extension == toLowerCase(name[Len(name)])
  IN  IF extension \in {"jpg", "jpeg"} THEN "image/jpeg"
      ELSE IF extension = "png" THEN "image/png"
      ELSE IF extension = "gif" THEN "image/gif"
      ELSE IF extension = "webp" THEN "image/webp"
      ELSE Null

\* C13: the file-type check is warn when no type is detected; else warn, with
\* the detected and the declared type in its details, when the detected type
\* differs from the declared mime; else warn when the detected type differs
\* from the type the extension implies; and ok otherwise.
C13_FileTypePriority ==
  Called("runFileChecks") =>
    LET img == direct.args[1]
        check == direct.result[1]
        detected == detectFileType(img.arrayBuffer)
        declared == img.file.type
        implied == ImpliedType(img.file.name)
    IN  /\ check.id = "file-type"
        /\ check.status =
             IF detected = Null THEN "warn"
             ELSE IF detected # declared THEN "warn"
             ELSE IF implied # Null /\ detected # implied THEN "warn"
             ELSE "ok"
        /\ (detected # Null /\ detected # declared) =>
              /\ check.details["Detected Type"] = detected
              /\ check.details["Declared Type"] = declared

\* the offsets at which the buffer holds the bytes `part`
Occurrences(bytes, part) ==
  { i \in 0..(Len(bytes) - Len(part)) : HoldsAt(bytes, i, part) }

\* C14: for a GIF the animation check is warn exactly when the bytes hold the
\* marker 21 F9 more than once, for a WebP exactly when they hold the tag
\* ANIM, and ok, a static image, otherwise.
C14_AnimationFromMarkers ==
  Called("runFileChecks") =>
    LET bytes == direct.args[1].arrayBuffer
        detected == detectFileType(bytes)
        animation == WithId(direct.result, "animation")
        animated ==
          IF detected = "image/gif"
            THEN Cardinality(Occurrences(bytes, <<33, 249>>)) > 1
            ELSE Occurrences(bytes, <<65, 78, 73, 77>>) # {}
    IN  detected \in {"image/gif", "image/webp"} =>
          /\ Len(animation) = 1
          /\ animation[1].status = (IF animated THEN "warn" ELSE "ok")
          /\ animation[1].details["Animated"] = (IF animated THEN "Yes" ELSE "No")

\* the last direct call ran the compression checks on a JPEG and returned
QualityEstimated ==
  /\ Called("runCompressionChecks")
  /\ detectFileType(direct.args[1].arrayBuffer) = "image/jpeg"

\* the estimate the jpeg-quality check of that call shows
DirectEstimate ==
  WithId(direct.result, "jpeg-quality")[1].details["Quality Estimate"]

\* the estimate is a whole number from 1 to 100
EstimateInRange ==
  /\ "digits" \in DOMAIN DirectEstimate[1]
  /\ DirectEstimate[1].digits \in 1..100

\* the offsets of the DQT markers whose segment length is 67 or more
TableOffsets(bytes) ==
  { i \in Occurrences(bytes, <<255, 219>>) :
      /\ i + 3 < Len(bytes)
      /\ bytes[i + 3] * 256 + bytes[i + 4] >= 67 }

C16_NotApplicablePerCheck ==
  loadState = "loaded" =>
    IF detectFileType(image.arrayBuffer) # "image/jpeg"
      THEN /\ pc # "reencode"
           /\ elaOutcome = Null
           /\ WithId(allChecks, "jpeg-quality") = <<>>
           /\ WithId(allChecks, "double-compression") = <<>>
           /\ Reported =>
                /\ Len(WithId(report.checks, "ela")) = 1
                /\ WithId(report.checks, "ela")[1].status = "info"
                /\ WithId(report.checks, "ela")[1].summary =
                     <<"ELA not applicable (non-JPEG)">>
                /\ "overlay" \notin DOMAIN WithId(report.checks, "ela")[1]
      ELSE (Reported /\ estimateJpegQuality(image.arrayBuffer) = NullNumber) =>
             /\ Len(WithId(report.checks, "jpeg-quality")) = 1
             /\ WithId(report.checks, "jpeg-quality")[1].status = "info"
             /\ ReportedEstimate = <<Str("Unknown")>>

\* the report of a GIF: no JPEG results, and the ela result among its checks
C16_Witness ==
  /\ Reported
  /\ detectFileType(image.arrayBuffer) = "image/gif"
  /\ WithId(report.checks, "jpeg-quality") = <<>>
  /\ Len(WithId(report.checks, "ela")) = 1
  /\ Len(WithId(report.checks, "uniform-areas")) = 1

\* C17: the status of the uniform-area check follows the ratio of uniform
\* blocks to all blocks: warn above 0.3, info above 0.1 and up to 0.3, ok up
\* to 0.1.
C17_UniformStatusByRatio ==
  Called("runCompressionChecks") =>
    LET ratio == analyzeUniformity(direct.args[1])
        uniform == WithId(direct.result, "uniform-areas")
    IN  /\ Len(uniform) = 1
        /\ uniform[1].status =
             IF 10 * ratio.num > 3 * ratio.den THEN "warn"
             ELSE IF 10 * ratio.num > ratio.den THEN "info"
             ELSE "ok"

\* the noise-consistency result of the last direct call of runPixelChecks
DirectNoise == direct.result[1]

\* the blocks of 32 pixels that fit along the width and along the height
NoiseBlocks(img) == [x |-> img.width \div 32, y |-> img.height \div 32]

\* the outlier blocks of an image of n blocks of which k lie one below and k
\* one above the energy of all others: the mean is that energy, the variance
\* 2k/n, so the 2k blocks have |energy - mean| / stddev > 2.5 exactly when
\* n / 2k > 6.25
OutlierBlocks(n, k) == IF k > 0 /\ 2 * n > 25 * k THEN 2 * k ELSE 0

\* C18: the noise-consistency check returns the skip result (info, confidence
\* 0.2, no overlay, no regions) exactly when fewer than 3 blocks of 32 pixels
\* fit along the width or the height; otherwise it emits one region per
\* outlier block, a block being an outlier when |energy - mean| / stddev
\* exceeds 2.5, and is warn when outliers/total is above 0.15, info when
\* above 0.05, ok otherwise.
C18_NoiseOutliers ==
  Called("runPixelChecks") =>
    LET img == direct.args[1]
        blocks == NoiseBlocks(img)
        n == blocks.x * blocks.y
        outliers == OutlierBlocks(n, img.pixels.spikes)
    IN  /\ DirectNoise.id = "noise-consistency"
        /\ IF blocks.x < 3 \/ blocks.y < 3
             THEN /\ DirectNoise.status = "info"
                  /\ DirectNoise.confidence = 20
                  /\ {"overlay", "regions"} \cap DOMAIN DirectNoise = {}
             ELSE /\ DirectNoise.confidence # 20
                  /\ Len(DirectNoise.regions) = outliers
                  /\ DirectNoise.details["Blocks Analyzed"] = n
                  /\ DirectNoise.status =
                       IF 100 * outliers > 15 * n THEN "warn"
                       ELSE IF 100 * outliers > 5 * n THEN "info"
                       ELSE "ok"

\* six outlier blocks among 39, a ratio between 0.15 and the 0.16 that no
\* ratio of blocks beyond 2.5 deviations can exceed: warn
C18_Witness ==
  /\ Called("runPixelChecks")
  /\ NoiseBlocks(direct.args[1]) = [x |-> 13, y |-> 3]
  /\ Len(DirectNoise.regions) = 6
  /\ DirectNoise.status = "warn"

\* the edge-consistency result of the last direct call of runPixelChecks
DirectEdges == direct.result[2]

\* the strong-edge ratio of the image exceeds 0.02: more than 2 pixels in a
\* hundred lie above mean + 3 deviations
ManyStrongEdges(img) ==
  100 * ((img.width * img.height * img.pixels.strongEdges) \div 1000)
    > 2 * img.width * img.height

\* C19: the edge check is never warn or fail: it is info when the strong-edge
\* ratio exceeds 0.02 and ok otherwise.
C19_EdgeNeverWarns ==
  Called("runPixelChecks") =>
    /\ DirectEdges.id = "edge-consistency"
    /\ DirectEdges.status \in {"info", "ok"}
    /\ DirectEdges.status = "info" <=> ManyStrongEdges(direct.args[1])

\* an image in which one pixel in ten is a strong edge is still info
C19_Witness ==
  /\ Called("runPixelChecks")
  /\ direct.args[1].pixels.strongEdges = 100
  /\ DirectEdges.status = "info"

\* the clone-detection result of the last direct call of runPixelChecks
DirectClones == direct.result[3]

\* a block of the given size at p lies inside the image
BlockInside(img, p, size) ==
  /\ p.x >= 0 /\ p.x + size <= img.width
  /\ p.y >= 0 /\ p.y + size <= img.height

\* the image holds one 32x32 block at exactly two locations, more than 64
\* pixels apart, and no other repeated content
OneBlockCopiedApart(img) ==
  /\ Len(img.pixels.buckets) = 1
  /\ Len(img.pixels.buckets[1]) = 2
  /\ LET a == img.pixels.buckets[1][1]
         b == img.pixels.buckets[1][2]
     IN  /\ BlockInside(img, a, 32)
         /\ BlockInside(img, b, 32)
         /\ (a.x - b.x) * (a.x - b.x) + (a.y - b.y) * (a.y - b.y) > 64 * 64

\* C20: in quick-scan mode, an image in which one 32x32 block appears at two
\* locations more than 64 pixels apart, wherever they lie, gets at least one
\* match and the status info or warn.
C20_CopyFound ==
  (Called("runPixelChecks") /\ direct.args[2] = FALSE
     /\ OneBlockCopiedApart(direct.args[1])) =>
    /\ DirectClones.details["Matches Found"] >= 1
    /\ DirectClones.status \in {"info", "warn"}

\* the number of block origins k * step whose block of blockSize pixels lies
\* fully inside a side of the given length
PositionsThatFit(length, blockSize, step) ==
  Cardinality({ k \in 0..length : k * step + blockSize <= length })

\* the clone detector answered with its low-confidence skip result
CloneScanSkipped ==
  /\ DirectClones.status = "info"
  /\ DirectClones.confidence = 20
  /\ "Analysis" \in DOMAIN DirectClones.details

DirectCandidates ==
  LET img == direct.args[1]
      blockSize == IF direct.args[2] THEN 16 ELSE 32
      step == IF direct.args[2] THEN 8 ELSE 16
  IN  duplicatesOf(sampledBuckets(img, step,
                                  blocksAlong(img.width, blockSize, step),
                                  blocksAlong(img.height, blockSize, step)),
                   blockSize)

\* two regions lie within the margin of each other on both axes
Within(r, q, margin) == Abs(r.x - q.x) < margin /\ Abs(r.y - q.y) < margin

\* the last direct call of runPixelChecks performed the clone scan
CloneScanned == Called("runPixelChecks") /\ "regions" \in DOMAIN DirectClones

\* C22: no two reported clone regions lie within blockSize of each other on
\* both axes, and every candidate dropped by de-duplication lies within
\* blockSize on both axes of a reported region.
C22_RegionsDeduplicated ==
  CloneScanned =>
    LET regions == DirectClones.regions
        blockSize == IF direct.args[2] THEN 16 ELSE 32
    IN  /\ \A i, j \in DOMAIN regions :
              i # j => ~Within(regions[i], regions[j], blockSize)
        /\ Range(regions) \subseteq Range(DirectCandidates)
        /\ \A c \in Range(DirectCandidates) :
              \E r \in Range(regions) : Within(c, r, blockSize)

\* a scan that dropped a candidate lying near, but not at, a reported region
C22_Witness ==
  /\ CloneScanned
  /\ \E c \in Range(DirectCandidates) : c \notin Range(DirectClones.regions)
  /\ Len(DirectClones.regions) >= 2

\* the social-media-hint result of the last direct call of runSocialMediaCheck
DirectSocial == direct.result[1]

\* the signals the result records whose text begins with one of the words
SignalsBeginning(check, words) ==
  { k \in DOMAIN check.details :
      /\ k \notin {"Detection Score", "Signals Found"}
      /\ check.details[k][1] \in words }

\* what the size of the image adds to the score: the score of the call less
\* the score of the same call on the image ten times as wide and as high,
\* which has the same aspect ratio and a larger side beyond every platform
\* width
DimensionContribution ==
  LET img == direct.args[1]
  IN  ScoreOf(DirectSocial)
        - ScoreOf(checkSocialMediaHint(
                    [img EXCEPT !.width = 10 * img.width,
                                !.height = 10 * img.height],
                    direct.args[2], direct.args[3]))

\* the platform widths
PlatformWidths ==
  { SOCIAL_MEDIA_DIMENSIONS[k].width : k \in DOMAIN SOCIAL_MEDIA_DIMENSIONS }

\* the dimension signal adds 2 on a platform width, 1 within the given
\* distance of one, 0 otherwise, and is recorded at most once
DimensionSignalWithin(near(_)) ==
  Called("runSocialMediaCheck") =>
    LET img == direct.args[1]
        maxDim == Max(img.width, img.height)
    IN  /\ DimensionContribution =
             IF maxDim \in PlatformWidths THEN 2
             ELSE IF \E e \in PlatformWidths : near(Abs(maxDim - e)) THEN 1
             ELSE 0
        /\ Cardinality(SignalsBeginning(DirectSocial,
                                        {"Max dimension ", "Max dimension ~"})) <= 1

Checkpoints == <<10, 25, 40, 55, 75, 90, 100>>

C25_CancelStopsRun ==
  [][cancelRequested => (progress' = progress /\ report' = report)]_vars

\* the social heuristic of the report scored its signal for missing metadata
SocialSawNoExif ==
  SignalsBeginning(WithId(report.checks, "social-media-hint")[1],
                   {"No EXIF metadata (stripped by most platforms)"}) # {}

\* C26: in every report the social heuristic scores its signal for missing
\* metadata if and only if the exif-presence check of the report found none
\* (status info), although the extractor is called once for each of them.
C26_ExifAgreement ==
  Reported =>
    (SocialSawNoExif <=> WithId(report.checks, "exif-presence")[1].status = "info")

\* C27: no check collected in a run has the status fail, so in every report
\* failCount is 0 and the verdict is suspicious if and only if warnCount is
\* at least 3.
C27_NoFailStatus ==
  /\ \A i \in DOMAIN allChecks : allChecks[i].status \in {"ok", "warn", "info"}
  /\ Reported =>
       /\ \A i \in DOMAIN report.checks : report.checks[i].status # "fail"
       /\ report.summary.failCount = 0
       /\ report.overallStatus = "suspicious" <=> report.summary.warnCount >= 3

\* a report that is suspicious on its warnings alone
C27_Witness ==
  /\ Reported
  /\ report.summary.failCount = 0
  /\ report.summary.warnCount >= 3
  /\ report.overallStatus = "suspicious"

\* the checks every report holds
CommonChecks ==
  {"file-type", "file-properties", "exif-presence", "editing-software",
   "uniform-areas", "noise-consistency", "edge-consistency", "clone-detection",
   "ela", "social-media-hint"}

\* the checks of a report of an image of the detected format
ChecksOfFormat(format) ==
  CommonChecks
  \cup (IF format = "image/jpeg" THEN {"jpeg-quality", "double-compression"}
        ELSE {})
  \cup (IF format \in {"image/gif", "image/webp"} THEN {"animation"} ELSE {})

ReportedIds == { report.checks[i].id : i \in DOMAIN report.checks }

\* C28: the checks of a report depend only on the detected format and no id
\* occurs twice: 12 checks for a JPEG (with jpeg-quality and
\* double-compression, without animation), 10 for a PNG (none of the three),
\* 11 for a GIF or a WebP (animation only).
C28_ChecksPerFormat ==
  Reported =>
    LET format == detectFileType(image.arrayBuffer)
    IN  /\ ReportedIds = ChecksOfFormat(format)
        /\ Len(report.checks) = Cardinality(ReportedIds)
        /\ Len(report.checks) =
             CASE format = "image/jpeg" -> 12
               [] format = "image/png" -> 10
               [] format \in {"image/gif", "image/webp"} -> 11

\* a report of an animated image
C28_Witness ==
  /\ Reported
  /\ Len(report.checks) = 11
  /\ "animation" \in ReportedIds
  /\ detectFileType(image.arrayBuffer) = "image/webp"

\* C29: the clone detector never reports exactly one match: in both scan
\* modes `Matches Found` is 0 or at least 2.
C29_NeverOneMatch ==
  CloneScanned =>
    /\ DirectClones.details["Matches Found"] = Len(DirectClones.regions)
    /\ DirectClones.details["Matches Found"] # 1
    /\ DirectCandidates # <<>> => DirectClones.details["Matches Found"] >= 2

\* a scan that found one pair and reports its two positions
C29_Witness ==
  /\ CloneScanned
  /\ Len(DirectCandidates) = 2
  /\ DirectClones.details["Matches Found"] = 2
  /\ DirectClones.status = "info"

\* the aspect-ratio signals the result records
AspectSignals ==
  SignalsBeginning(DirectSocial,
                   {"Square aspect ratio (1:1) - common on Instagram",
                    "4:5 or 5:4 aspect ratio - common on Instagram",
                    "16:9 aspect ratio - common for video thumbnails"})

\* what the aspect ratio adds to the score: the score of the call less the
\* score of the same call on an image of the same larger side and a ratio of
\* 3:2 or 2:3, which is none of the ratios the heuristic knows
AspectContribution ==
  LET img == direct.args[1]
      maxDim == Max(img.width, img.height)
      plain == IF img.width >= img.height
                 THEN [img EXCEPT !.height = (2 * maxDim) \div 3]
                 ELSE [img EXCEPT !.width = (2 * maxDim) \div 3]
  IN  ScoreOf(DirectSocial)
        - ScoreOf(checkSocialMediaHint(plain, direct.args[2], direct.args[3]))

\* C30: for every width and height at most one of the three aspect-ratio
\* signals is scored, so the score never exceeds 7.
C30_OneAspectSignal ==
  Called("runSocialMediaCheck") =>
    /\ Cardinality(AspectSignals) <= 1
    /\ AspectContribution = Cardinality(AspectSignals)
    /\ ScoreOf(DirectSocial) <= 7

\* a square JPEG of quality 60 without metadata whose side is a platform
\* width scores 7
C30_Witness ==
  /\ Called("runSocialMediaCheck")
  /\ Cardinality(AspectSignals) = 1
  /\ ScoreOf(DirectSocial) = 7
====
